---- MODULE Spec2Model ----
(***************************************************************************)
(* Model of the adaptive fee engine of lazy-lnd.                           *)
(*                                                                         *)
(*   Spec          the HTLC event correlator, scripts/main.py              *)
(*                 match_and_buffer_events with drivers/buffer_htlc.py     *)
(*   StoreSpec     the state store, autotune/config_loader.py, from a      *)
(*                 cold start, a save being a sequence of file steps that  *)
(*                 a crash may cut short                                   *)
(*   StoreAnySpec  the same store started on any files at all              *)
(*   ClampSpec     the policy clamp, autotune/policy_utils.py              *)
(*                 enforce_policy, applied to any proposed fees and again  *)
(*                 to its own output                                       *)
(*   RoleSpec      the role state of one peer over the autotune cycles,    *)
(*                 autotune/autotune.py update_role_state                  *)
(*   DebounceSpec  the debounced role override of one peer over the        *)
(*                 cycles, autotune/autotune.py recommend_and_update_fees  *)
(*                                                                         *)
(* Times are whole seconds on a scaled-down clock; windows that are        *)
(* minutes or hours in the program are one or a few ticks here.            *)
(***************************************************************************)
EXTENDS Integers, Sequences, FiniteSets, TLC

VARIABLES
    \* ---- correlator: scripts/main.py ----
    feed,        \* lines of the htlc log file not yet read by the correlator
    nextId,      \* number of lines the event feed has written so far
    pending,     \* pending = {} : the forward attempts awaiting an outcome, in dict order
    buffer,      \* the NDJSON buffer file: the records it holds, in order
    emitted,     \* every record ever passed to append_to_ndjson, in order
    attempts,    \* ids of the forward attempts buffered as pending so far
    now,         \* the wall clock, time.time()
    last_batch,  \* last_batch
    first_run,   \* first_run
    htlc_events, \* fee_kwargs["htlc_events"], the snapshot handed to the batch cycle
    lastPass,    \* the pass of the read loop that has run at the present time, if any
    \* ---- state store: autotune/config_loader.py ----
    files,       \* files[0] is the primary state file, files[i] the backup path.i
    tmp,         \* the temp file path.tmp
    pc,          \* where save_peer_memory stands
    rot,         \* the loop variable i of the backup rotation
    saving,      \* the peer_mem of the save in progress or last run
    committed,   \* the peer_mem of the last save that ran to its end
    loaded,      \* what the last load_peer_memory returned
    hasLoaded,   \* a load has run since the last save began
    crashed,     \* the last save was cut short
    save_hist,   \* what the saves completed since the last cut-short one wrote, oldest first
    files_before, \* the files as they were when the latest save began
    \* ---- policy clamp: autotune/policy_utils.py ----
    policy,      \* the policy values enforce_policy reads
    new_fees,    \* new_fees: min_fee_ppm, max_fee_ppm, inbound_fee_ppm
    pstate,      \* state: the peer's stored fee fields
    in_fees,     \* new_fees as it was before the latest enforce_policy
    in_pstate,   \* state as it was before the latest enforce_policy
    runs,        \* how many times enforce_policy has been applied
    \* ---- role state: autotune/autotune.py ----
    section,     \* the peer's stored section: role, role_flips, ...
    prev_section, \* the section as it was before the latest cycle
    new_role,    \* what the latest cycle classified the peer as, or "none"
    today,       \* the current UTC date, as a day number
    cycles,      \* cycles run so far
    classified,  \* the role the latest cycle computed with classify_peer, or "none"
    cycle_day,   \* the day of the latest cycle, -1 before the first
    prev_cycle_day,\* the day of the cycle before the latest, -1 if none
    \* ---- debounced role override: autotune/autotune.py ----
    overlay,     \* the peer's role_override ("" when unset) and band counters
    prev_override, \* role_override as it was before the latest cycle
    band_hist,   \* the latest cycles, oldest first: score band, low-EMA flag
    peer_role,   \* the peer's raw role in the latest cycle
    ctx_role,    \* the role the latest cycle gave to the rules
    dcycles,     \* cycles run so far
    \* ---- rule engine: autotune/rule_engine.py ----
    rule_ctx,      \* the context handed to evaluate_fee_rules
    best_outbound, \* the best outbound result (a set: empty for None)
    best_inbound,  \* the best inbound result (a set: empty for None)
    evaluated,     \* TRUE once evaluate_fee_rules has returned
    \* ---- fee cycle of one peer: autotune/autotune.py ----
    peer,        \* the peer's section of the peer memory
    conf_fees,   \* the peer's fees in the charge-lnd configuration
    observe,     \* TRUE when the cycles run in observe mode
    cyc_now,     \* the time of the latest cycle, in minutes
    last,        \* the latest cycle: what it found and what it decided
    cruns,       \* cycles run so far
    \* ---- volume EMAs of one peer: autotune/autotune.py ----
    ema_sec,     \* the section: horizon EMAs and what selects the alphas
    ema_vol,     \* the day's outbound total the update used
    ema_res,     \* the update's result
    \* ---- one fee bump: autotune/autotune.py ----
    bump_fee,    \* the current fee
    bump_streak, \* the fee bump streak
    bump_fees,   \* the fee policy
    bump_res,    \* the bump's result
    \* ---- one full cycle from EMAs of 0: autotune/autotune.py ----
    fc_state,    \* the peer's role and streak state
    fc_lines,    \* the peer's configured fees
    fc_res,      \* the cycle's result
    \* ---- the fee manager: autotune/fee_manager.py ----
    disk_mem,    \* the peer memory file: a section for each peer
    disk_conf,   \* the charge-lnd configuration file: each peer's fees
    mgr_cycles,  \* the number of cycles run
    mgr_last,    \* what the latest cycle did
    \* ---- channel sync: autotune/sync_lnd_channels.py ----
    chan_list,    \* the peer's channel list in its section
    chan_listing, \* the peer's channels in the latest listing
    chan_ever,    \* every channel_point that was ever in the list
    syncs,        \* the number of syncs run
    \* ---- sink-risk score: autotune/autotune.py ----
    sr_section,   \* the section compute_sink_risk_score reads
    sr_score      \* what the call returned

corrVars == <<feed, nextId, pending, buffer, emitted, attempts, now, last_batch,
              first_run, htlc_events, lastPass>>

storeVars == <<files, tmp, pc, rot, saving, committed, loaded, hasLoaded, crashed,
               save_hist, files_before>>

clampVars == <<policy, new_fees, pstate, in_fees, in_pstate, runs>>

roleVars == <<section, prev_section, new_role, today, cycles,
              classified, cycle_day, prev_cycle_day>>

debounceVars == <<overlay, prev_override, band_hist, peer_role, ctx_role, dcycles>>

rulesVars == <<rule_ctx, best_outbound, best_inbound, evaluated>>

cycleVars == <<peer, conf_fees, observe, cyc_now, last, cruns>>

emaVars == <<ema_sec, ema_vol, ema_res>>

bumpVars == <<bump_fee, bump_streak, bump_fees, bump_res>>

fullVars == <<fc_state, fc_lines, fc_res>>

managerVars == <<disk_mem, disk_conf, mgr_cycles, mgr_last>>

syncVars == <<chan_list, chan_listing, chan_ever, syncs>>

sinkRiskVars == <<sr_section, sr_score>>

vars == <<corrVars, storeVars, clampVars, roleVars, debounceVars, rulesVars, cycleVars, emaVars, bumpVars, fullVars, managerVars, syncVars, sinkRiskVars>>

\* what a step of one component leaves alone: the other components
notCorr == <<storeVars, clampVars, roleVars, debounceVars, rulesVars, cycleVars, emaVars, bumpVars, fullVars, managerVars, syncVars, sinkRiskVars>>
notStore == <<corrVars, clampVars, roleVars, debounceVars, rulesVars, cycleVars, emaVars, bumpVars, fullVars, managerVars, syncVars, sinkRiskVars>>
notClamp == <<corrVars, storeVars, roleVars, debounceVars, rulesVars, cycleVars, emaVars, bumpVars, fullVars, managerVars, syncVars, sinkRiskVars>>
notRole == <<corrVars, storeVars, clampVars, debounceVars, rulesVars, cycleVars, emaVars, bumpVars, fullVars, managerVars, syncVars, sinkRiskVars>>
notDebounce == <<corrVars, storeVars, clampVars, roleVars, rulesVars, cycleVars, emaVars, bumpVars, fullVars, managerVars, syncVars, sinkRiskVars>>
notRules == <<corrVars, storeVars, clampVars, roleVars, debounceVars, cycleVars, emaVars, bumpVars, fullVars, managerVars, syncVars, sinkRiskVars>>
notCycle == <<corrVars, storeVars, clampVars, roleVars, debounceVars, rulesVars, emaVars, bumpVars, fullVars, managerVars, syncVars, sinkRiskVars>>
notEma == <<corrVars, storeVars, clampVars, roleVars, debounceVars, rulesVars, cycleVars, bumpVars, fullVars, managerVars, syncVars, sinkRiskVars>>
notBump == <<corrVars, storeVars, clampVars, roleVars, debounceVars, rulesVars, cycleVars, emaVars, fullVars, managerVars, syncVars, sinkRiskVars>>
notFull == <<corrVars, storeVars, clampVars, roleVars, debounceVars, rulesVars, cycleVars, emaVars, bumpVars, managerVars, syncVars, sinkRiskVars>>
notManager == <<corrVars, storeVars, clampVars, roleVars, debounceVars, rulesVars, cycleVars, emaVars, bumpVars, fullVars, syncVars, sinkRiskVars>>
notSync == <<corrVars, storeVars, clampVars, roleVars, debounceVars, rulesVars, cycleVars, emaVars, bumpVars, fullVars, managerVars, sinkRiskVars>>
notSinkRisk == <<corrVars, storeVars, clampVars, roleVars, debounceVars, rulesVars, cycleVars, emaVars, bumpVars, fullVars, managerVars, syncVars>>

(***************************************************************************)
(* Bounds of the model.                                                    *)
(***************************************************************************)
MaxEvents == 3      \* lines the event feed writes in one run
MaxFeed == 2        \* lines that may wait unread in the log file
MaxTime == 3        \* last tick of the clock

ExpiryTicks == 1     \* the expiry window, in ticks
IntervalTicks == 1   \* the interval between batch cycles, in ticks
WindowTicks == 2     \* the trailing window of the buffer, in ticks
MaxBackups == 2      \* backup generations kept
MaxProposed == 4     \* largest proposed fee given to the clamp
MaxNegative == 2     \* size of the most negative proposed fee given to the clamp
MaxSats == 2         \* largest daily inbound or outbound volume of the peer
MaxDays == 2         \* days the role state is followed over
MaxCycles == 4       \* autotune cycles the role state is followed over
MaxDebounce == 6     \* autotune cycles the role override is followed over
MaxCycleRuns == 3    \* fee cycles the peer is followed over
MaxBumpFee == 30     \* current fees 0 .. MaxBumpFee are all tried
MaxStreak == 6       \* fee bump streaks 0 .. MaxStreak are tried
SinkEmaTarget == 10  \* thresholds.sink_ema_target
MaxManagerCycles == 2  \* cycles of the fee manager
MaxSyncs == 3        \* channel syncs
MaxFee == 1          \* largest fee value held in a stored peer memory

(***************************************************************************)
(* Program parameters, scaled to the clock of the model.                   *)
(***************************************************************************)
expiry_secs == ExpiryTicks          \* --expiry-mins * 60
interval_secs == IntervalTicks      \* --interval-mins * 60
MAX_WINDOW_SECS == WindowTicks      \* 24 hours in the program

Min2(a, b) == IF a < b THEN a ELSE b
Max2(a, b) == IF a > b THEN a ELSE b

(***************************************************************************)
(* Raw events.  A line of the log is one HtlcEvent as the feed wrote it:   *)
(* its event_type, the one payload key it carries, the key fields, and     *)
(* timestamp_ns in seconds (0 when the field is absent).  A line that is   *)
(* not JSON has payload "garbage".                                         *)
(***************************************************************************)
Keys == {"k1", "k2"}

EventShapes ==
    { <<"FORWARD", "forward_event">>,
      <<"FORWARD", "settle_event">>,
      <<"FORWARD", "forward_fail_event">>,
      <<"FORWARD", "link_fail_event">>,
      <<"SEND", "forward_event">> }

\* The lines the feed may write at time clock with line number id.  Only a
\* forward attempt is also tried without timestamp_ns.
LinesAt(id, clock) ==
    { [id |-> id, event_type |-> shape[1], payload |-> shape[2], k |-> k, ts |-> clock] :
          shape \in EventShapes, k \in Keys }
    \cup { [id |-> id, event_type |-> "FORWARD", payload |-> "forward_event",
            k |-> k, ts |-> 0] : k \in Keys }
    \cup { [id |-> id, event_type |-> "", payload |-> "garbage", k |-> "", ts |-> 0] }

NoEvent == [id |-> 0, event_type |-> "", payload |-> "", k |-> "", t |-> 0]

fail_types == {"FORWARD_FAIL", "FINAL"}
fail_keys == {"forward_fail_event", "link_fail_event", "failure"}
fail_keys_not_paired == {"link_fail_event"}

\* parse_event: None for a line that is not JSON; otherwise the event with
\* _event_time = timestamp_ns // 10^9, or the read time when that is 0.
parse_event(line, clock) ==
    IF line.payload = "garbage" THEN NoEvent
    ELSE [id |-> line.id, event_type |-> line.event_type, payload |-> line.payload,
          k |-> line.k, t |-> IF line.ts = 0 THEN clock ELSE line.ts]

key_from_event(event) == event.k

(***************************************************************************)
(* The pending dict, kept as the sequence of its values in insertion       *)
(* order; an event carries its own key.                                    *)
(***************************************************************************)
RECURSIVE SeqFilterOut(_, _)
\* s without the elements whose key is k
SeqFilterOut(s, k) ==
    IF s = <<>> THEN <<>>
    ELSE IF Head(s).k = k THEN SeqFilterOut(Tail(s), k)
         ELSE <<Head(s)>> \o SeqFilterOut(Tail(s), k)

HasKey(p, k) == \E i \in 1..Len(p) : p[i].k = k

\* pending.get(k)
PendingGet(p, k) ==
    IF HasKey(p, k) THEN p[CHOOSE i \in 1..Len(p) : p[i].k = k] ELSE NoEvent

\* pending[k] = event : an existing key keeps its place, a new one goes last
PendingSet(p, k, event) ==
    IF HasKey(p, k)
    THEN [i \in 1..Len(p) |-> IF p[i].k = k THEN event ELSE p[i]]
    ELSE Append(p, event)

\* pending.pop(k, None), the dict that is left
PendingPop(p, k) == SeqFilterOut(p, k)

(***************************************************************************)
(* Records written to the buffer.                                          *)
(***************************************************************************)
EmptyResult == NoEvent
SuccessResult == [id |-> 0, event_type |-> "SUCCESS", payload |-> "", k |-> "", t |-> 0]

MatchedRecord(fwd, event) == [fwd |-> fwd, result |-> event, ts |-> event.t]
\* SoloRecord with the event on the result side
SoloRecordOnResultSide(event) == [fwd |-> EmptyResult, result |-> event, ts |-> event.t]
SoloRecord(event) == [fwd |-> event, result |-> EmptyResult, ts |-> event.t]
SuccessRecord(fwd) == [fwd |-> fwd, result |-> SuccessResult, ts |-> fwd.t]

\* The branch of the loop body taken for a parsed event: the pending dict
\* after it and the records it appends.
IsAttempt(event) == event.event_type = "FORWARD" /\ event.payload = "forward_event"
IsFailure(event) == event.event_type \in fail_types \/ event.payload \in fail_keys

\* MatchStep with pending.get(k) in place of pending.pop(k, None): a matched
\* attempt stays in the pending map.
MatchStepKeepsPending(p, event) ==
    LET k == key_from_event(event)
        fwd == PendingGet(p, k)
    IN  IF IsAttempt(event)
        THEN [pending |-> PendingSet(p, k, event), out |-> <<>>]
        ELSE IF IsFailure(event)
        THEN [pending |-> p,
              out |-> IF fwd # NoEvent THEN <<MatchedRecord(fwd, event)>>
                      ELSE IF event.payload \in fail_keys_not_paired
                           THEN <<SoloRecord(event)>>
                           ELSE <<>>]
        ELSE [pending |-> p, out |-> <<>>]

MatchStep(p, event) ==
    LET k == key_from_event(event)
        fwd == PendingGet(p, k)
    IN  IF IsAttempt(event)
        THEN [pending |-> PendingSet(p, k, event), out |-> <<>>]
        ELSE IF IsFailure(event)
        THEN [pending |-> PendingPop(p, k),
              out |-> IF fwd # NoEvent THEN <<MatchedRecord(fwd, event)>>
                      ELSE IF event.payload \in fail_keys_not_paired
                           THEN <<SoloRecord(event)>>
                           ELSE <<>>]
        ELSE [pending |-> p, out |-> <<>>]

\* The expiry sweep over list(pending.keys())
Expired(event, clock) == clock - event.t > expiry_secs

RECURSIVE SweepKeep(_, _)
SweepKeep(p, clock) ==
    IF p = <<>> THEN <<>>
    ELSE IF Expired(Head(p), clock) THEN SweepKeep(Tail(p), clock)
         ELSE <<Head(p)>> \o SweepKeep(Tail(p), clock)

RECURSIVE SweepOut(_, _)
SweepOut(p, clock) ==
    IF p = <<>> THEN <<>>
    ELSE IF Expired(Head(p), clock)
         THEN <<SuccessRecord(Head(p))>> \o SweepOut(Tail(p), clock)
         ELSE SweepOut(Tail(p), clock)

\* load_recent_events / prune_ndjson_buffer: the records of the trailing window
RECURSIVE RecentRecords(_, _)
RecentRecords(b, clock) ==
    IF b = <<>> THEN <<>>
    ELSE IF Head(b).ts >= clock - MAX_WINDOW_SECS
         THEN <<Head(b)>> \o RecentRecords(Tail(b), clock)
         ELSE RecentRecords(Tail(b), clock)

load_recent_events(b, clock) == RecentRecords(b, clock)
prune_ndjson_buffer(b, clock) == RecentRecords(b, clock)

\* autotune/process_htlc.py classify_failure_source
classify_failure_source(rec) ==
    IF rec.fwd.payload = "link_fail_event" THEN "local"
    ELSE IF rec.result.payload = "forward_fail_event" THEN "remote"
    ELSE IF rec.result.payload = "link_fail_event" THEN "local"
    ELSE "remote"

\* autotune/process_htlc.py compute_peer_htlc_stats: how it counts one event
htlc_outcome(event) ==
    IF event.fwd.payload = "link_fail_event" THEN "local_fail"
    ELSE IF event.result.payload = "forward_fail_event" THEN "remote_fail"
    ELSE "success"

\* compute_peer_htlc_stats(htlc_events, now, (win,)): the counts of window win
compute_peer_htlc_stats(events, clock, win) ==
    LET in_window == {i \in 1..Len(events) : events[i].ts >= clock - win}
        counted(o) == Cardinality({i \in in_window : htlc_outcome(events[i]) = o})
    IN  [total |-> Cardinality(in_window),
         fails |-> counted("local_fail") + counted("remote_fail"),
         successes |-> counted("success"),
         local_fails |-> counted("local_fail"),
         remote_fails |-> counted("remote_fail")]

SeqIds(s) == {s[i].id : i \in 1..Len(s)}

(***************************************************************************)
(* Correlator: initial state and steps.                                    *)
(***************************************************************************)
CorrInit ==
    /\ feed = <<>>
    /\ nextId = 0
    /\ pending = <<>>
    /\ buffer = <<>>
    /\ emitted = <<>>
    /\ attempts = {}
    /\ now = 1
    /\ last_batch = 1
    /\ first_run = TRUE
    /\ htlc_events = <<>>
    /\ lastPass = "none"

\* time passes
Tick ==
    /\ now < MaxTime
    /\ now' = now + 1
    /\ lastPass' = "none"
    /\ UNCHANGED <<feed, nextId, pending, buffer, emitted, attempts, last_batch,
                   first_run, htlc_events>>
    /\ UNCHANGED notCorr

\* scripts/htlc.py: the subscription client appends one line to the log
Produce ==
    /\ nextId < MaxEvents
    /\ Len(feed) < MaxFeed
    /\ \E line \in LinesAt(nextId + 1, now) : feed' = Append(feed, line)
    /\ nextId' = nextId + 1
    /\ UNCHANGED <<pending, buffer, emitted, attempts, now, last_batch, first_run,
                   htlc_events, lastPass>>
    /\ UNCHANGED notCorr

\* readline() returns nothing: sleep and go round again
ReadIdle ==
    /\ feed = <<>>
    /\ lastPass' = "idle"
    /\ UNCHANGED <<feed, nextId, pending, buffer, emitted, attempts, now, last_batch,
                   first_run, htlc_events>>
    /\ UNCHANGED notCorr

\* a line that does not parse: continue
ReadGarbage ==
    /\ feed # <<>>
    /\ parse_event(Head(feed), now) = NoEvent
    /\ feed' = Tail(feed)
    /\ lastPass' = "unparsed"
    /\ UNCHANGED <<nextId, pending, buffer, emitted, attempts, now, last_batch,
                   first_run, htlc_events>>
    /\ UNCHANGED notCorr

\* one full pass of the loop body for a parsed event: match, sweep, batch
ReadEvent ==
    /\ feed # <<>>
    /\ parse_event(Head(feed), now) # NoEvent
    /\ LET event == parse_event(Head(feed), now)
           m == MatchStep(pending, event)
           kept == SweepKeep(m.pending, now)
           out == m.out \o SweepOut(m.pending, now)
           written == buffer \o out
           due == (now - last_batch > interval_secs) \/ first_run
       IN  /\ feed' = Tail(feed)
           /\ pending' = kept
           /\ emitted' = emitted \o out
           /\ attempts' = attempts \cup (IF IsAttempt(event) THEN {event.id} ELSE {})
           /\ IF due
              THEN /\ htlc_events' = load_recent_events(written, now)
                   /\ buffer' = prune_ndjson_buffer(written, now)
                   /\ last_batch' = now
                   /\ first_run' = FALSE
              ELSE /\ buffer' = written
                   /\ UNCHANGED <<htlc_events, last_batch, first_run>>
           /\ lastPass' = "event"
    /\ UNCHANGED <<nextId, now>>
    /\ UNCHANGED notCorr

(***************************************************************************)
(* State store: autotune/config_loader.py.                                 *)
(*                                                                         *)
(* A Python dict is a function whose domain is a set of keys; a key is     *)
(* tagged as an int or a str and carries its text.  json.dump writes every *)
(* key as a string, so what json.load gives back has str keys only.        *)
(***************************************************************************)
BACKUP_COUNT == MaxBackups      \* 1000 in the program

StrKey(s) == [int |-> FALSE, s |-> s]
IntKey(s) == [int |-> TRUE, s |-> s]

\* the key json.dump writes for a dict key
JsonKey(k) == StrKey(k.s)

\* a dict as json.dump then json.load return it: keys turned into strings
JsonKeys(d) == {JsonKey(k) : k \in DOMAIN d}
KeyWritten(d, jk) == CHOOSE k \in DOMAIN d : JsonKey(k) = jk

JsonScalar(x) == x
JsonStats(d) == [jk \in JsonKeys(d) |-> JsonScalar(d[KeyWritten(d, jk)])]
JsonSection(sec) == [fee |-> sec.fee, htlc_stats |-> JsonStats(sec.htlc_stats)]

\* json.load(json.dump(peer_mem))
JsonRoundTrip(pm) == [jk \in JsonKeys(pm) |-> JsonSection(pm[KeyWritten(pm, jk)])]

EmptyMem == [k \in {} |-> 0]

\* The htlc_stats dicts of a section: compute_peer_htlc_stats keys them by
\* the window as an int, a loaded state file by the window as a string.
StatsDicts ==
    {EmptyMem} \cup { [k \in {key} |-> n] : key \in {IntKey("3600"), StrKey("3600")}, n \in {1} }

Sections == [fee : 1..MaxFee, htlc_stats : StatsDicts]

\* the peer memories a cycle may hand to save_peer_memory
PeerMems == {EmptyMem} \cup { [k \in {StrKey("chan1")} |-> sec] : sec \in Sections }

\* File contents: no file, a file cut short (not JSON), a JSON document that
\* is no object, or the JSON text of a peer memory.
Missing == [kind |-> "missing", isdict |-> FALSE, val |-> EmptyMem]
Partial == [kind |-> "partial", isdict |-> FALSE, val |-> EmptyMem]
JsonList == [kind |-> "json", isdict |-> FALSE, val |-> EmptyMem]

\* json.dump(peer_mem, f)
JsonDump(pm) == [kind |-> "json", isdict |-> TRUE, val |-> JsonRoundTrip(pm)]

Contents == {Missing, Partial, JsonList} \cup {JsonDump(pm) : pm \in PeerMems}

\* json.load succeeds and validate_peer_memory accepts the value
validate_peer_memory(content) == content.isdict
Loadable(content) == content.kind = "json" /\ validate_peer_memory(content)

\* load_peer_memory with only the primary file tried
LoadPrimaryOnly(f, i) == IF Loadable(f[0]) THEN f[0].val ELSE EmptyMem

RECURSIVE LoadFrom(_, _)
\* the loop of load_peer_memory from candidate i on
LoadFrom(f, i) ==
    IF i > BACKUP_COUNT THEN EmptyMem
    ELSE IF Loadable(f[i]) THEN f[i].val
    ELSE LoadFrom(f, i + 1)

load_peer_memory(f) == LoadFrom(f, 0)

NoFiles == [i \in 0..BACKUP_COUNT |-> Missing]

\* the last BACKUP_COUNT + 1 entries of h: no older one can still be on disk
LastWritten(h) ==
    IF Len(h) <= BACKUP_COUNT + 1 THEN h
    ELSE SubSeq(h, Len(h) - BACKUP_COUNT, Len(h))

StoreRest ==
    /\ tmp = Missing
    /\ pc = "idle"
    /\ rot = 0
    /\ saving = EmptyMem
    /\ committed = EmptyMem
    /\ loaded = EmptyMem
    /\ hasLoaded = FALSE
    /\ crashed = FALSE
    /\ save_hist = <<>>
    /\ files_before = NoFiles

\* a cold start: no state file, no backup
StoreInit == files = NoFiles /\ StoreRest

\* any primary and backup files at all
StoreAnyInit == files \in [0..BACKUP_COUNT -> Contents] /\ StoreRest

\* save_peer_memory writing the state file in place: open(path, "w")
SaveOpenPrimary ==
    /\ pc \in {"idle", "saved"}
    /\ \E pm \in PeerMems : saving' = pm
    /\ files' = [files EXCEPT ![0] = Partial]
    /\ tmp' = Partial
    /\ pc' = "tmp_open"
    /\ hasLoaded' = FALSE
    /\ crashed' = FALSE
    /\ files_before' = files
    /\ UNCHANGED <<rot, committed, loaded, save_hist>>
    /\ UNCHANGED notStore

\* save_peer_memory is called: validate, then open(tmp_path, "w")
SaveOpenTmp ==
    /\ pc \in {"idle", "saved"}
    /\ \E pm \in PeerMems : saving' = pm
    /\ tmp' = Partial
    /\ pc' = "tmp_open"
    /\ hasLoaded' = FALSE
    /\ crashed' = FALSE
    /\ files_before' = files
    /\ UNCHANGED <<files, rot, committed, loaded, save_hist>>
    /\ UNCHANGED notStore

\* json.dump, flush, fsync
SaveWriteTmp ==
    /\ pc = "tmp_open"
    /\ tmp' = JsonDump(saving)
    /\ pc' = "tmp_written"
    /\ UNCHANGED <<files, rot, saving, committed, loaded, hasLoaded, crashed,
                   save_hist, files_before>>
    /\ UNCHANGED notStore

\* the temp file is read back and validated; the rotation loop starts
SaveVerify ==
    /\ pc = "tmp_written"
    /\ Loadable(tmp)
    /\ rot' = BACKUP_COUNT
    /\ pc' = "rotate"
    /\ UNCHANGED <<files, tmp, saving, committed, loaded, hasLoaded, crashed,
                   save_hist, files_before>>
    /\ UNCHANGED notStore

\* rotation, generation i: older does not exist, nothing is copied
RotateSkip ==
    /\ pc = "rotate"
    /\ rot >= 1
    /\ files[rot - 1].kind = "missing"
    /\ rot' = rot - 1
    /\ UNCHANGED <<files, tmp, pc, saving, committed, loaded, hasLoaded, crashed,
                   save_hist, files_before>>
    /\ UNCHANGED notStore

\* rotation, generation i: shutil.copy2 opens the destination for writing
RotateCopyOpen ==
    /\ pc = "rotate"
    /\ rot >= 1
    /\ files[rot - 1].kind # "missing"
    /\ files' = [files EXCEPT ![rot] = Partial]
    /\ pc' = "copying"
    /\ UNCHANGED <<tmp, rot, saving, committed, loaded, hasLoaded, crashed,
                   save_hist, files_before>>
    /\ UNCHANGED notStore

\* RotateCopyDone with every generation copied from the primary file
RotateCopyFromPrimary ==
    /\ pc = "copying"
    /\ files' = [files EXCEPT ![rot] = files[0]]
    /\ rot' = rot - 1
    /\ pc' = "rotate"
    /\ UNCHANGED <<tmp, saving, committed, loaded, hasLoaded, crashed,
                   save_hist, files_before>>
    /\ UNCHANGED notStore

\* rotation, generation i: the copy completes
RotateCopyDone ==
    /\ pc = "copying"
    /\ files' = [files EXCEPT ![rot] = files[rot - 1]]
    /\ rot' = rot - 1
    /\ pc' = "rotate"
    /\ UNCHANGED <<tmp, saving, committed, loaded, hasLoaded, crashed,
                   save_hist, files_before>>
    /\ UNCHANGED notStore

\* the end of save_peer_memory with the temp file dropped, not moved
SaveDropsTmp ==
    /\ pc = "rotate"
    /\ rot = 0
    /\ tmp' = Missing
    /\ committed' = saving
    /\ pc' = "saved"
    /\ save_hist' = LastWritten(Append(save_hist, tmp))
    /\ UNCHANGED <<files, rot, saving, loaded, hasLoaded, crashed, files_before>>
    /\ UNCHANGED notStore

\* os.replace(tmp_path, path)
SaveReplace ==
    /\ pc = "rotate"
    /\ rot = 0
    /\ files' = [files EXCEPT ![0] = tmp]
    /\ tmp' = Missing
    /\ committed' = saving
    /\ pc' = "saved"
    /\ save_hist' = LastWritten(Append(save_hist, tmp))
    /\ UNCHANGED <<rot, saving, loaded, hasLoaded, crashed, files_before>>
    /\ UNCHANGED notStore

\* the process dies in the middle of a save; the files stay as they are
Crash ==
    /\ pc \in {"tmp_open", "tmp_written", "rotate", "copying"}
    /\ pc' = "idle"
    /\ crashed' = TRUE
    /\ save_hist' = <<>>
    /\ UNCHANGED <<files, tmp, rot, saving, committed, loaded, hasLoaded, files_before>>
    /\ UNCHANGED notStore

\* load_peer_memory(path)
Load ==
    /\ pc \in {"idle", "saved"}
    /\ ~hasLoaded
    /\ loaded' = load_peer_memory(files)
    /\ hasLoaded' = TRUE
    /\ UNCHANGED <<files, tmp, pc, rot, saving, committed, crashed,
                   save_hist, files_before>>
    /\ UNCHANGED notStore

StoreNext ==
    \/ SaveOpenTmp
    \/ SaveWriteTmp
    \/ SaveVerify
    \/ RotateSkip
    \/ RotateCopyOpen
    \/ RotateCopyDone
    \/ SaveReplace
    \/ Crash
    \/ Load

(***************************************************************************)
(* Policy clamp: autotune/policy_utils.py enforce_policy.                  *)
(*                                                                         *)
(* An optional value (a key that may be missing from a dict) is a set with *)
(* at most one element.                                                    *)
(***************************************************************************)
DefaultMinPpm == 0
DefaultMaxPpm == 3000
DefaultInboundMaxPpm == 3000
DefaultInboundMinPpm == -1000
DefaultInboundIncrement == 25

\* dict.get(key, default)
Get(opt, default) == IF opt = {} THEN default ELSE CHOOSE v \in opt : TRUE

\* int(x * 1.5) and int(x / 2): Python's int() truncates toward zero
IntTimes15(x) == IF x >= 0 THEN (3 * x) \div 2 ELSE -((3 * (-x)) \div 2)
IntHalf(x) == IF x >= 0 THEN x \div 2 ELSE -((-x) \div 2)

SetMin(S) == CHOOSE x \in S : \A y \in S : x <= y

\* the bounds enforce_policy works out from the policy and the state
PolicyLimits(pol, st) ==
    LET global_min_fee == Get(pol.fees_min_ppm, DefaultMinPpm)
        global_max_fee == Get(pol.fees_max_ppm, DefaultMaxPpm)
        global_max_inbound_fee == Get(pol.inbound_max_ppm, DefaultInboundMaxPpm)
        global_min_inbound_fee == Get(pol.inbound_min_ppm, DefaultInboundMinPpm)
        global_inbound_increment == Get(pol.inbound_increment_ppm, DefaultInboundIncrement)
        chan_min_fee == Get(pol.min_range_ppm, global_min_fee)
        chan_max_fee == Get(pol.max_range_ppm, global_max_fee)
        chan_min_inbound == Get(pol.min_inbound_fee_ppm, global_max_inbound_fee)
        chan_max_inbound == Get(pol.max_inbound_fee_ppm, global_max_inbound_fee)
        last_successful_fee == Get(st.last_successful_fee, chan_max_fee)
        last_successful_inbound_fee ==
            Get(st.last_successful_inbound_fee, global_inbound_increment)
        policy_max == SetMin({global_max_fee, chan_max_fee, IntTimes15(last_successful_fee)})
    IN  [policy_max |-> policy_max,
         policy_min |-> IntHalf(policy_max),
         policy_inbound_max |->
             SetMin({global_max_inbound_fee, chan_max_inbound,
                     IntTimes15(last_successful_inbound_fee)}),
         policy_inbound_min |-> SetMin({global_min_inbound_fee, chan_min_inbound})]

\* the fees enforce_policy returns
ClampFees(fees, lim) ==
    LET max1 == Min2(fees.max_fee_ppm, lim.policy_max)
        min1 == Min2(fees.min_fee_ppm, lim.policy_min)
        max2 == Max2(max1, min1)
        in0 == fees.inbound_fee_ppm
        in1 == IF in0 > lim.policy_inbound_max
               THEN Min2(in0, lim.policy_inbound_max) ELSE in0
        in2 == IF in1 < 0 /\ in1 < lim.policy_inbound_min
               THEN Max2(in1, lim.policy_inbound_min) ELSE in1
        in3 == IF in2 < 0 /\ in2 < -max2 THEN Max2(in2, -max2) ELSE in2
    IN  [min_fee_ppm |-> min1, max_fee_ppm |-> max2, inbound_fee_ppm |-> in3]

\* enforce_policy: the clamped fees and the state with them mirrored into it
enforce_policy(fees, st, pol) ==
    LET out == ClampFees(fees, PolicyLimits(pol, st))
    IN  [fees |-> out,
         state |-> [st EXCEPT !.fee = out.max_fee_ppm,
                              !.inbound_fee = out.inbound_fee_ppm]]

\* The policies, proposed fees and peer states the clamp is tried on.
Opt(S) == {{}} \cup {{v} : v \in S}

Policies ==
    [fees_min_ppm : {{}},
     fees_max_ppm : Opt({4}),
     inbound_max_ppm : Opt({3}),
     inbound_min_ppm : Opt({-2}),
     inbound_increment_ppm : {{}},
     min_range_ppm : {{}},
     max_range_ppm : Opt({3}),
     min_inbound_fee_ppm : Opt({-1}),
     max_inbound_fee_ppm : Opt({1})]

ProposedFees ==
    [min_fee_ppm : (-MaxNegative)..MaxProposed,
     max_fee_ppm : (-MaxNegative)..MaxProposed,
     inbound_fee_ppm : (-MaxNegative)..MaxProposed]

ClampStates ==
    [fee : {0},
     inbound_fee : {0},
     last_successful_fee : Opt({0, 2}),
     last_successful_inbound_fee : Opt({2})]

ClampInit ==
    /\ policy \in Policies
    /\ new_fees \in ProposedFees
    /\ pstate \in ClampStates
    /\ in_fees = new_fees
    /\ in_pstate = pstate
    /\ runs = 0

\* a cold cycle: nothing to clamp yet
ClampIdle ==
    /\ policy = CHOOSE pol \in Policies : \A f \in DOMAIN pol : pol[f] = {}
    /\ new_fees = [min_fee_ppm |-> 0, max_fee_ppm |-> 0, inbound_fee_ppm |-> 0]
    /\ pstate = [fee |-> 0, inbound_fee |-> 0, last_successful_fee |-> {},
                 last_successful_inbound_fee |-> {}]
    /\ in_fees = new_fees
    /\ in_pstate = pstate
    /\ runs = 0

\* enforce_policy is applied to the proposed fees
Enforce ==
    /\ runs = 0
    /\ LET r == enforce_policy(new_fees, pstate, policy)
       IN  /\ new_fees' = r.fees
           /\ pstate' = r.state
    /\ in_fees' = new_fees
    /\ in_pstate' = pstate
    /\ runs' = 1
    /\ UNCHANGED policy
    /\ UNCHANGED notClamp

\* enforce_policy is applied again, to its own output
EnforceAgain ==
    /\ runs = 1
    /\ LET r == enforce_policy(new_fees, pstate, policy)
       IN  /\ new_fees' = r.fees
           /\ pstate' = r.state
    /\ in_fees' = new_fees
    /\ in_pstate' = pstate
    /\ runs' = 2
    /\ UNCHANGED policy
    /\ UNCHANGED notClamp

ClampNext ==
    \/ Enforce
    \/ EnforceAgain

(***************************************************************************)
(* Role state: autotune/autotune.py classify_peer, update_role_state and   *)
(* the part of process_channel_data that calls them.                       *)
(*                                                                         *)
(* A section is a record; role = "" stands for a section without the key   *)
(* "role" (the code reads it with section.get("role", "")), and            *)
(* has_role_flips says whether the key "role_flips" is there.              *)
(***************************************************************************)
RoleRatios == {1, 2}

classify_peer(total_in_sats, total_out_sats, role_ratio) ==
    IF total_in_sats > total_out_sats * role_ratio THEN "sink"
    ELSE IF total_out_sats > total_in_sats * role_ratio THEN "tap"
    ELSE "balanced"

FlipRecord(date, role) == [timestamp |-> date, role |-> role]

\* a peer nothing is known of yet
Untracked ==
    [role |-> "", has_role_flips |-> FALSE, role_flips |-> <<>>,
     days_since_flip |-> 0, last_updated |-> 0]

update_role_state_keeps_days(sec, role, date) ==
    LET previous_role == sec.role
        s1 == IF ~sec.has_role_flips
              THEN [sec EXCEPT !.has_role_flips = TRUE, !.role_flips = <<>>,
                               !.days_since_flip = 0, !.last_updated = date]
              ELSE sec
        s2 == IF role # previous_role
              THEN [s1 EXCEPT !.role_flips = Append(@, FlipRecord(date, role)),
                              !.last_updated = date]
              ELSE IF s1.last_updated # date
                   THEN [s1 EXCEPT !.days_since_flip = @ + 1, !.last_updated = date]
                   ELSE s1
    IN  [s2 EXCEPT !.role = role]

update_role_state(sec, role, date) ==
    LET previous_role == sec.role
        s1 == IF ~sec.has_role_flips
              THEN [sec EXCEPT !.has_role_flips = TRUE, !.role_flips = <<>>,
                               !.days_since_flip = 0, !.last_updated = date]
              ELSE sec
        s2 == IF role # previous_role
              THEN [s1 EXCEPT !.role_flips = Append(@, FlipRecord(date, role)),
                              !.days_since_flip =
                                  IF previous_role # "" THEN 0 ELSE @,
                              !.last_updated = date]
              ELSE IF s1.last_updated # date
                   THEN [s1 EXCEPT !.days_since_flip = @ + 1, !.last_updated = date]
                   ELSE s1
    IN  [s2 EXCEPT !.role = role]

RoleInit ==
    /\ section = Untracked
    /\ prev_section = Untracked
    /\ new_role = "none"
    /\ today = 0
    /\ cycles = 0
    /\ classified = "none"
    /\ cycle_day = -1
    /\ prev_cycle_day = -1

\* midnight UTC passes
NextDay ==
    /\ today < MaxDays
    /\ today' = today + 1
    /\ prev_section' = section
    /\ new_role' = "none"
    /\ classified' = "none"
    /\ UNCHANGED <<section, cycles, cycle_day, prev_cycle_day>>
    /\ UNCHANGED notRole

\* process_channel_data on a day with no outbound volume and no revenue:
\* the peer is classified but the role state is left alone
CycleQuiet ==
    /\ cycles < MaxCycles
    /\ \E total_in_sats \in 0..MaxSats, role_ratio \in RoleRatios :
          classified' = classify_peer(total_in_sats, 0, role_ratio)
    /\ cycle_day' = today
    /\ prev_cycle_day' = cycle_day
    /\ cycles' = cycles + 1
    /\ prev_section' = section
    /\ new_role' = "none"
    /\ UNCHANGED <<section, today>>
    /\ UNCHANGED notRole

\* process_channel_data on a day with outbound volume or revenue
CycleActive ==
    /\ cycles < MaxCycles
    /\ \E total_in_sats \in 0..MaxSats, total_out_sats \in 0..MaxSats,
          total_fees \in 0..1, role_ratio \in RoleRatios :
          /\ total_out_sats > 0 \/ total_fees > 0
          /\ LET role == classify_peer(total_in_sats, total_out_sats, role_ratio)
             IN  /\ section' = update_role_state(section, role, today)
                 /\ new_role' = role
                 /\ classified' = role
    /\ cycle_day' = today
    /\ prev_cycle_day' = cycle_day
    /\ cycles' = cycles + 1
    /\ prev_section' = section
    /\ UNCHANGED today
    /\ UNCHANGED notRole

(***************************************************************************)
(* Debounced role override: autotune/autotune.py recommend_and_update_fees *)
(* and the end of adjust_channel_fees.                                     *)
(*                                                                         *)
(* sink_risk_score is kept in tenths; role_override = "" stands for a      *)
(* state without the key.                                                  *)
(***************************************************************************)
SinkBandTenths == 8
TapBandTenths == 2
DebounceCycles == 3
EmaFloor == 1000

Scores == {0, 2, 3, 7, 8, 10}
EmaLevels == {EmaFloor, EmaFloor + 1}
Roles == {"sink", "tap", "balanced"}

Band(sink_score) ==
    IF sink_score >= SinkBandTenths THEN "high"
    ELSE IF sink_score <= TapBandTenths THEN "low"
    ELSE "neutral"

NoOverlay ==
    [role_override |-> "", sink_score_high_count |-> 0,
     sink_score_low_count |-> 0, neutral_sink_score_count |-> 0]

\* the counters after the band test
BandCountsKeepsOthers(st, sink_score) ==
    IF sink_score >= SinkBandTenths
    THEN [st EXCEPT !.sink_score_high_count = @ + 1]
    ELSE IF sink_score <= TapBandTenths
    THEN [st EXCEPT !.sink_score_low_count = @ + 1]
    ELSE [st EXCEPT !.neutral_sink_score_count = @ + 1]

BandCounts(st, sink_score) ==
    IF sink_score >= SinkBandTenths
    THEN [st EXCEPT !.sink_score_high_count = @ + 1,
                    !.sink_score_low_count = 0,
                    !.neutral_sink_score_count = 0]
    ELSE IF sink_score <= TapBandTenths
    THEN [st EXCEPT !.sink_score_low_count = @ + 1,
                    !.sink_score_high_count = 0,
                    !.neutral_sink_score_count = 0]
    ELSE [st EXCEPT !.neutral_sink_score_count = @ + 1,
                    !.sink_score_high_count = 0,
                    !.sink_score_low_count = 0]

\* the debounce block of recommend_and_update_fees
Debounce(st, sink_score) ==
    LET c == BandCounts(st, sink_score)
    IN  IF c.sink_score_high_count >= DebounceCycles
        THEN [c EXCEPT !.role_override = "sink"]
        ELSE IF c.sink_score_low_count >= DebounceCycles
        THEN [c EXCEPT !.role_override = "tap"]
        ELSE IF c.neutral_sink_score_count >= DebounceCycles /\ c.role_override # ""
        THEN [c EXCEPT !.role_override = ""]
        ELSE c

\* the end of adjust_channel_fees: a low blended EMA zeroes the counters
LowEmaReset(st, ema_blended) ==
    IF ema_blended <= EmaFloor
    THEN [st EXCEPT !.sink_score_high_count = 0,
                    !.sink_score_low_count = 0,
                    !.neutral_sink_score_count = 0]
    ELSE st

\* section.get("role_override") or section.get("role", "undefined")
EffectiveRole(st, role) == IF st.role_override # "" THEN st.role_override ELSE role

LastCycles(h) == IF Len(h) > DebounceCycles THEN SubSeq(h, 2, Len(h)) ELSE h

DebounceInit ==
    /\ overlay = NoOverlay
    /\ prev_override = ""
    /\ band_hist = <<>>
    /\ peer_role = "balanced"
    /\ ctx_role = "balanced"
    /\ dcycles = 0

\* one cycle of recommend_and_update_fees for the peer
DebounceCycle ==
    /\ dcycles < MaxDebounce
    /\ \E sink_score \in Scores, ema_blended \in EmaLevels, role \in Roles :
          LET d == Debounce(overlay, sink_score)
          IN  /\ overlay' = LowEmaReset(d, ema_blended)
              /\ ctx_role' = EffectiveRole(d, role)
              /\ peer_role' = role
              /\ band_hist' = LastCycles(Append(band_hist,
                      [band |-> Band(sink_score), low_ema |-> ema_blended <= EmaFloor]))
    /\ prev_override' = overlay.role_override
    /\ dcycles' = dcycles + 1
    /\ UNCHANGED notDebounce

(***************************************************************************)
(* The rule engine: autotune/rule_engine.py.                               *)
(*                                                                         *)
(* A context is a record with the fields of Context that the rules read.   *)
(* Fractions are kept as integers: DELTA_THRESHOLD, REVENUE_THRESHOLD,     *)
(* percentage_outbound and the HTLC fail rates in percent, sink_ratio,     *)
(* sink_delta and sink_risk_score in tenths.  The HTLC statistics that H1  *)
(* reads from ctx.peer_mem["htlc_stats"] are the fields rate_1h, fails_1h  *)
(* and rate_24h.  The policy is one without an entry for the peer under    *)
(* [channels], with the peer in no exemption list, and with the [htlc] and *)
(* [inbound_fees] keys at the defaults the rules fall back to, except      *)
(* inbound_fees.max_fee_ppm, which F5 reads without a default and is the   *)
(* field inbound_max_fee_ppm.                                              *)
(*                                                                         *)
(* A rule returns the set of its results: empty when it returns None.  The *)
(* inbound_fee of a result is a set as well: empty for None.               *)
(***************************************************************************)
Abs(x) == IF x < 0 THEN -x ELSE x

RECURSIVE Pow2(_)
Pow2(n) == IF n = 0 THEN 1 ELSE 2 * Pow2(n - 1)

RuleResult(rule_id, new_min, new_max, weight, cooldown_override, inbound_fee) ==
    [rule_id |-> rule_id, new_min |-> new_min, new_max |-> new_max,
     weight |-> weight, cooldown_override |-> cooldown_override,
     inbound_fee |-> inbound_fee]

\* abs(a - b) < 0.01 * max(abs(b), 1)
WithinOnePercent(a, b) == 100 * Abs(a - b) < Max2(Abs(b), 1)

fee_increase_skip_check(ctx) ==
    /\ WithinOnePercent(ctx.ema_blended, ctx.prev_ema_blended)
    /\ WithinOnePercent(ctx.rev_ema_blended, ctx.prev_rev_ema_blended)

fee_decay_skip_check(ctx) ==
    \/ ctx.fee <= ctx.min_fee
    \/ ctx.ema_blended >= ctx.prev_ema_blended
    \/ WithinOnePercent(ctx.ema_blended, ctx.prev_ema_blended)

inbound_fee_skip_check(ctx) ==
    WithinOnePercent(ctx.ema_blended, ctx.prev_ema_blended)

\* autotune.calculate_exponential_fee_bump, which the context carries
calculate_exponential_fee_bump(current_fee, fee_bump_streak, ctx) ==
    LET soft == current_fee < ctx.FEE_INCREMENT_PPM
        step == IF soft THEN Pow2(fee_bump_streak)
                ELSE Min2(ctx.FEE_INCREMENT_PPM * Pow2(fee_bump_streak),
                          ctx.FEE_BUMP_MAX)
        new_max == IF soft THEN Min2(ctx.FEE_INCREMENT_PPM, current_fee + step)
                   ELSE Min2(ctx.FEE_MAX_PPM, current_fee + step)
    IN  [new_max |-> new_max, new_min |-> new_max \div 2, bump |-> step]

rule_a1_bootstrap_low_fee(ctx) ==
    IF fee_increase_skip_check(ctx) THEN {}
    ELSE IF ctx.max_fee <= 1 /\ ctx.ema_blended > 100000 /\ ctx.vol > ctx.last_daily_vol
    THEN {RuleResult("A1_bootstrap_low_fee", 1, 2, 20, FALSE, {})}
    ELSE {}

rule_a2_incremental_plus_one(ctx) ==
    IF fee_increase_skip_check(ctx) THEN {}
    ELSE IF /\ ctx.max_fee < ctx.FEE_INCREMENT_PPM
            /\ ctx.vol_int > 10000
            /\ ctx.ema_blended > 100000
            /\ ctx.vol > ctx.last_daily_vol
    THEN {RuleResult("A2_incremental_plus_one", (ctx.fee + 1) \div 2, ctx.fee + 1,
                     20, FALSE, {})}
    ELSE {}

rule_b1_small_decay(ctx) ==
    IF fee_decay_skip_check(ctx) THEN {}
    ELSE IF ctx.fee <= 0 THEN {}
    ELSE IF /\ ctx.fee < ctx.FEE_INCREMENT_PPM
            /\ ctx.vol_int < 10000
            /\ ctx.vol <= ctx.last_daily_vol
    THEN LET new_max == Max2(0, ctx.fee - 1)
         IN  {RuleResult("B1_small_decay", new_max \div 2, new_max, 40, FALSE, {})}
    ELSE {}

rule_b2_zero_volume_decay(ctx) ==
    IF fee_decay_skip_check(ctx) THEN {}
    ELSE IF /\ ctx.vol = 0
            /\ ctx.max_fee > 0
            /\ ctx.max_fee < ctx.FEE_INCREMENT_PPM
            /\ ctx.revenue = 0
            /\ ctx.ema_blended < 10000
    THEN LET new_max == Max2(ctx.FEE_MIN_PPM, ctx.fee - 1)
         IN  {RuleResult("B2_zero_volume_decay", new_max \div 2, new_max, 35, FALSE, {})}
    ELSE {}

rule_b3_generic_decay(ctx) ==
    IF fee_decay_skip_check(ctx) THEN {}
    ELSE IF ctx.vol = 0
    THEN LET new_max == Max2(ctx.FEE_MIN_PPM, ctx.max_fee - ctx.FEE_INCREMENT_PPM)
         IN  {RuleResult("B3_generic_decay", new_max \div 2, new_max, 30, FALSE, {})}
    ELSE {}

rule_c1_exponential_bump(ctx) ==
    LET strong_growth == 100 * ctx.ema_delta > ctx.ema_blended * ctx.DELTA_THRESHOLD
        bump == calculate_exponential_fee_bump(ctx.fee, ctx.fee_bump_streak, ctx)
        max_allowed == IF ctx.last_successful_fee # 0
                       THEN IntTimes15(ctx.last_successful_fee) ELSE ctx.max_fee
    IN  IF fee_increase_skip_check(ctx) THEN {}
        ELSE IF ~(strong_growth /\ ctx.max_fee < ctx.FEE_MAX_PPM /\ ctx.revenue > 0) THEN {}
        ELSE IF bump.new_max > max_allowed THEN {}
        ELSE {RuleResult("C1_exponential_bump", bump.new_min, bump.new_max, 100, TRUE, {})}

rule_d1_negative_delta_decay(ctx) ==
    LET big_drop_v == 100 * ctx.ema_delta < -(ctx.ema_blended * ctx.DELTA_THRESHOLD)
        big_drop_r == 100 * ctx.rev_delta < -(ctx.rev_ema_blended * ctx.REVENUE_THRESHOLD)
        stagnating == /\ ctx.ema_delta = ctx.rev_delta
                      /\ ctx.rev_delta = ctx.ema_blended
                      /\ ctx.ema_blended = ctx.rev_ema_blended
                      /\ ctx.rev_ema_blended = 0
    IN  IF fee_decay_skip_check(ctx) THEN {}
        ELSE IF (big_drop_v /\ big_drop_r) \/ stagnating
        THEN LET new_max == Max2(ctx.FEE_MIN_PPM, ctx.fee - ctx.FEE_INCREMENT_PPM)
             IN  {RuleResult("D1_negative_delta_decay", new_max \div 2, new_max,
                             25, FALSE, {})}
        ELSE {}

rule_e1_zero_ema_exponential_decay(ctx) ==
    IF fee_decay_skip_check(ctx) THEN {}
    ELSE IF ctx.zero_ema_count > 5
    THEN LET steps == Min2(ctx.zero_ema_count, 10)
             new_max == Max2(ctx.FEE_MIN_PPM, ctx.fee - steps * ctx.FEE_INCREMENT_PPM)
         IN  {RuleResult("E1_zero_ema_exponential_decay", new_max \div 2, new_max,
                         20, FALSE, {})}
    ELSE {}

rule_f1_role_flip_freeze(ctx) ==
    IF ctx.days_since_flip < 1
    THEN {RuleResult("F1_role_flip_freeze", ctx.min_fee, ctx.max_fee, 10, FALSE,
                     {ctx.inbound_fee})}
    ELSE {}

rule_f2_tap_surge_boost(ctx) ==
    IF /\ ctx.role = "tap"
       /\ ctx.days_since_flip <= 3
       /\ 100 * ctx.ema_delta > ctx.ema_blended * 5
       /\ ctx.fee = 0
    THEN {RuleResult("F2_tap_surge_boost", 0, 1, 85, FALSE, {Min2(ctx.inbound_fee, 0)})}
    ELSE {}

rule_f3_sink_ema_guard(ctx) ==
    IF ctx.sink_ratio > 50 /\ ctx.ema_from_target < 250000 /\ ctx.sink_delta > 5
    THEN LET bump == Max2(0, ctx.max_fee)
         IN  {RuleResult("F3_ema_sink_guard", (bump * 8) \div 10, bump, 70, FALSE, {})}
    ELSE {}

rule_f4_sink_score_guard(ctx) ==
    IF ctx.sink_risk_score < 9 THEN {}
    ELSE IF ctx.fee >= 1000 THEN {}
    ELSE LET bump == Min2(Max2(ctx.fee + ctx.FEE_INCREMENT_PPM, 1000), ctx.max_fee)
         IN  {RuleResult("F4_sink_score_guard", bump, bump, 65, FALSE,
                         {ctx.inbound_fee})}

rule_f5_sink_inbound_tax(ctx) ==
    LET scaled == Min2(ctx.ema_blended \div 4000, ctx.inbound_max_fee_ppm)
        inbound_fee == IF ctx.inbound_fee > 0 THEN Min2(scaled, ctx.inbound_fee)
                       ELSE scaled
    IN  IF inbound_fee_skip_check(ctx) THEN {}
        ELSE IF ctx.sink_risk_score < 5 THEN {}
        ELSE IF inbound_fee = ctx.inbound_fee THEN {}
        ELSE {RuleResult("F5_sink_inbound_tax", ctx.min_fee, ctx.max_fee, 55, FALSE,
                         {inbound_fee})}

rule_f6_inbound_fee_decay(ctx) ==
    LET \* int(inbound_fee * max(ema_blended / 100_000, 0.85))
        target_fee == IF ctx.ema_blended * 100 >= 85 * 100000
                      THEN (ctx.inbound_fee * ctx.ema_blended) \div 100000
                      ELSE (ctx.inbound_fee * 85) \div 100
        decayed_fee == Max2(ctx.inbound_fee - 100, target_fee)
    IN  IF ctx.inbound_fee <= 0 THEN {}
        ELSE IF ctx.sink_risk_score < 5
        THEN {RuleResult("F6_inbound_fee_decay", ctx.min_fee, ctx.max_fee, 60, FALSE, {0})}
        ELSE IF ctx.ema_blended < 100000 /\ decayed_fee < ctx.inbound_fee
        THEN {RuleResult("F6_inbound_fee_decay", ctx.min_fee, ctx.max_fee, 55, FALSE,
                         {decayed_fee})}
        ELSE {}

rule_f7_subsidise_inbound(ctx) ==
    IF inbound_fee_skip_check(ctx) THEN {}
    ELSE IF ctx.sink_risk_score >= 5 THEN {}
    ELSE IF ctx.percentage_outbound > 10
    THEN IF ctx.inbound_fee < 0
         THEN {RuleResult("F7_subsidise_inbound", ctx.min_fee, ctx.max_fee, 50, FALSE, {0})}
         ELSE {}
    ELSE {RuleResult("F7_subsidise_inbound", ctx.min_fee, ctx.max_fee, 50, FALSE,
                     {-ctx.min_fee})}

rule_h1_high_htlc_fail_rate(ctx) ==
    LET next_fee == IF ctx.max_fee < ctx.FEE_INCREMENT_PPM
                    THEN Min2(ctx.max_fee + 1, ctx.FEE_INCREMENT_PPM)
                    ELSE ctx.max_fee + ctx.FEE_INCREMENT_PPM
        new_max_fee == Min2(next_fee, ctx.FEE_MAX_PPM)
        short_term == ctx.rate_1h > 40 /\ ctx.fails_1h > 25
    IN  IF short_term /\ ctx.rate_24h > 30
        THEN {RuleResult("H1_high_htlc_fail_rate", IntHalf(new_max_fee), new_max_fee,
                         110, TRUE, {})}
        ELSE IF short_term
        THEN {RuleResult("H1_high_htlc_fail_rate", IntHalf(new_max_fee), new_max_fee,
                         90, TRUE, {})}
        ELSE {}

rule_h2_dynamic_inbound_fee(ctx) ==
    LET increment == 25
        max_positive_ppm == ctx.inbound_max_fee_ppm
        min_negative_ppm == -100
        ema_blended == Max2(ctx.ema_blended, 1)
        \* int(increment * (abs(ema_delta) / ema_blended)), within [1, 2 * increment]
        step == Max2(1, Min2((increment * Abs(ctx.ema_delta)) \div ema_blended,
                             2 * increment))
        filling ==
            \/ ctx.percentage_outbound > 75
            \/ /\ \/ ctx.sink_risk_score > 7
                  \/ 100 * ctx.ema_delta > ema_blended * ctx.DELTA_THRESHOLD
               /\ ctx.percentage_outbound > 25
        draining ==
            \/ ctx.percentage_outbound <= 25
            \/ ctx.sink_risk_score < 3
            \/ 100 * ctx.ema_delta < -(ema_blended * ctx.DELTA_THRESHOLD)
        raised == Min2(ctx.inbound_fee + step, max_positive_ppm)
        lowered == Max2(Max2(ctx.inbound_fee - step, min_negative_ppm), -ctx.min_fee)
    IN  IF inbound_fee_skip_check(ctx) THEN {}
        ELSE IF filling /\ raised # ctx.inbound_fee
        THEN {RuleResult("H2_adaptive_inbound_fee_fill", ctx.min_fee, ctx.max_fee, 70,
                         FALSE, {raised})}
        ELSE IF draining /\ lowered # ctx.inbound_fee
        THEN {RuleResult("H2_adaptive_inbound_fee_drain", ctx.min_fee, ctx.max_fee, 70,
                         FALSE, {lowered})}
        ELSE {}

\* the rule catalogue, in registration order
ALL_RULES ==
    <<"h1", "h2", "f1", "f2", "f3", "f4", "f5", "f6", "f7",
      "a1", "a2", "c1", "b1", "b2", "b3", "d1", "e1">>

\* rule(ctx) for the rule registered under the given name
RunRule(rule, ctx) ==
    CASE rule = "h1" -> rule_h1_high_htlc_fail_rate(ctx)
      [] rule = "h2" -> rule_h2_dynamic_inbound_fee(ctx)
      [] rule = "f1" -> rule_f1_role_flip_freeze(ctx)
      [] rule = "f2" -> rule_f2_tap_surge_boost(ctx)
      [] rule = "f3" -> rule_f3_sink_ema_guard(ctx)
      [] rule = "f4" -> rule_f4_sink_score_guard(ctx)
      [] rule = "f5" -> rule_f5_sink_inbound_tax(ctx)
      [] rule = "f6" -> rule_f6_inbound_fee_decay(ctx)
      [] rule = "f7" -> rule_f7_subsidise_inbound(ctx)
      [] rule = "a1" -> rule_a1_bootstrap_low_fee(ctx)
      [] rule = "a2" -> rule_a2_incremental_plus_one(ctx)
      [] rule = "c1" -> rule_c1_exponential_bump(ctx)
      [] rule = "b1" -> rule_b1_small_decay(ctx)
      [] rule = "b2" -> rule_b2_zero_volume_decay(ctx)
      [] rule = "b3" -> rule_b3_generic_decay(ctx)
      [] rule = "d1" -> rule_d1_negative_delta_decay(ctx)
      [] rule = "e1" -> rule_e1_zero_ema_exponential_decay(ctx)

IsInboundCandidate(result, ctx) ==
    result.inbound_fee # {} /\ result.inbound_fee # {ctx.inbound_fee}

IsOutboundCandidate(result, ctx) ==
    result.new_min # ctx.min_fee \/ result.new_max # ctx.max_fee

\* the results of the rules from the i-th on, in catalogue order
RECURSIVE ResultsFrom(_, _)
ResultsFrom(i, ctx) ==
    IF i > Len(ALL_RULES) THEN <<>>
    ELSE LET fired == RunRule(ALL_RULES[i], ctx)
         IN  (IF fired = {} THEN <<>> ELSE <<CHOOSE r \in fired : TRUE>>)
             \o ResultsFrom(i + 1, ctx)

\* max(results, key=weight, default=None): the first result of the greatest
\* weight, as a set
RECURSIVE MaxByWeightFrom(_, _, _)
MaxByWeightFrom(results, i, best) ==
    IF i > Len(results) THEN best
    ELSE MaxByWeightFrom(results, i + 1,
                         IF results[i].weight > best.weight THEN results[i] ELSE best)

MaxByWeightLast(results) ==
    IF results = <<>> THEN {}
    ELSE LET top == CHOOSE i \in 1..Len(results) :
                        /\ \A j \in 1..Len(results) : results[j].weight <= results[i].weight
                        /\ \A j \in (i + 1)..Len(results) :
                               results[j].weight < results[i].weight
         IN  {results[top]}

MaxByWeight(results) ==
    IF results = <<>> THEN {} ELSE {MaxByWeightFrom(results, 2, results[1])}

evaluate_fee_rules(ctx) ==
    LET results == ResultsFrom(1, ctx)
        IsIn(r) == IsInboundCandidate(r, ctx)
        IsOut(r) == IsOutboundCandidate(r, ctx)
    IN  [best_outbound |-> MaxByWeight(SelectSeq(results, IsOut)),
         best_inbound |-> MaxByWeight(SelectSeq(results, IsIn))]

\* The contexts the rules are evaluated on.
EmaProfiles ==
    {[prev_ema_blended |-> 200000, ema_blended |-> e,
      prev_rev_ema_blended |-> 100, rev_ema_blended |-> 100] :
        e \in {5000, 150000, 200000, 250000}}

DeltaProfiles ==
    {[ema_delta |-> d, rev_delta |-> d \div 500] : d \in {-50000, 0, 50000}}

VolumeProfiles ==
    {[vol |-> v, vol_int |-> v, revenue |-> v \div 2000, last_daily_vol |-> 10000] :
        v \in {0, 20000}}

FeeProfiles ==
    {[fee |-> 0, min_fee |-> 0, max_fee |-> 2],
     [fee |-> 3, min_fee |-> 0, max_fee |-> 1],
     [fee |-> 10, min_fee |-> 5, max_fee |-> 10],
     [fee |-> 30, min_fee |-> 15, max_fee |-> 30],
     [fee |-> 5, min_fee |-> 8, max_fee |-> 4]}

HistoryProfiles ==
    {[fee_bump_streak |-> 0, last_successful_fee |-> 0, zero_ema_count |-> 0],
     [fee_bump_streak |-> 2, last_successful_fee |-> 30, zero_ema_count |-> 6]}

HtlcProfiles ==
    {[rate_1h |-> 0, fails_1h |-> 0, rate_24h |-> 0],
     [rate_1h |-> 50, fails_1h |-> 30, rate_24h |-> 0],
     [rate_1h |-> 50, fails_1h |-> 30, rate_24h |-> 40]}

RoleProfiles ==
    {[role |-> "tap", days_since_flip |-> 0], [role |-> "sink", days_since_flip |-> 5]}

SinkProfiles ==
    {[sink_risk_score |-> 0, sink_ratio |-> 10, sink_delta |-> 0, ema_from_target |-> 0],
     [sink_risk_score |-> 5, sink_ratio |-> 10, sink_delta |-> 0, ema_from_target |-> 0],
     [sink_risk_score |-> 9, sink_ratio |-> 10, sink_delta |-> 0, ema_from_target |-> 0],
     [sink_risk_score |-> 9, sink_ratio |-> 60, sink_delta |-> 6, ema_from_target |-> 0]}

SkipProfiles ==
    {[skip_outbound_fee_adjust |-> FALSE, skip_inbound_fee_adjust |-> FALSE],
     [skip_outbound_fee_adjust |-> TRUE, skip_inbound_fee_adjust |-> FALSE],
     [skip_outbound_fee_adjust |-> FALSE, skip_inbound_fee_adjust |-> TRUE]}

PolicyProfile ==
    [FEE_INCREMENT_PPM |-> 25, FEE_MIN_PPM |-> 0, FEE_MAX_PPM |-> 3000,
     DELTA_THRESHOLD |-> 10, REVENUE_THRESHOLD |-> 10, FEE_BUMP_MAX |-> 200,
     inbound_max_fee_ppm |-> 1500]

InboundFees == {-40, 0, 40}
OutboundPercentages == {5, 50, 80}

\* the context with the given parts
MakeContext(e, d, v, f, s, h, r, k, sk, pol, i, p) ==
    [prev_ema_blended |-> e.prev_ema_blended, ema_blended |-> e.ema_blended,
     prev_rev_ema_blended |-> e.prev_rev_ema_blended,
     rev_ema_blended |-> e.rev_ema_blended, ema_delta |-> d.ema_delta,
     rev_delta |-> d.rev_delta, vol |-> v.vol, vol_int |-> v.vol_int,
     revenue |-> v.revenue, last_daily_vol |-> v.last_daily_vol,
     fee |-> f.fee, min_fee |-> f.min_fee, max_fee |-> f.max_fee,
     fee_bump_streak |-> s.fee_bump_streak,
     last_successful_fee |-> s.last_successful_fee,
     zero_ema_count |-> s.zero_ema_count, rate_1h |-> h.rate_1h,
     fails_1h |-> h.fails_1h, rate_24h |-> h.rate_24h, role |-> r.role,
     days_since_flip |-> r.days_since_flip,
     sink_risk_score |-> k.sink_risk_score, sink_ratio |-> k.sink_ratio,
     sink_delta |-> k.sink_delta, ema_from_target |-> k.ema_from_target,
     skip_outbound_fee_adjust |-> sk.skip_outbound_fee_adjust,
     skip_inbound_fee_adjust |-> sk.skip_inbound_fee_adjust,
     FEE_INCREMENT_PPM |-> pol.FEE_INCREMENT_PPM,
     FEE_MIN_PPM |-> pol.FEE_MIN_PPM, FEE_MAX_PPM |-> pol.FEE_MAX_PPM,
     DELTA_THRESHOLD |-> pol.DELTA_THRESHOLD,
     REVENUE_THRESHOLD |-> pol.REVENUE_THRESHOLD,
     FEE_BUMP_MAX |-> pol.FEE_BUMP_MAX,
     inbound_max_fee_ppm |-> pol.inbound_max_fee_ppm, inbound_fee |-> i,
     percentage_outbound |-> p]

Contexts ==
    {MakeContext(e, d, v, f, s, h, r, k, sk, PolicyProfile, i, p) :
        e \in EmaProfiles, d \in DeltaProfiles, v \in VolumeProfiles, f \in FeeProfiles,
        s \in HistoryProfiles, h \in HtlcProfiles, r \in RoleProfiles, k \in SinkProfiles,
        sk \in SkipProfiles, i \in InboundFees, p \in OutboundPercentages}

IdleContext ==
    MakeContext(CHOOSE e \in EmaProfiles : TRUE, CHOOSE d \in DeltaProfiles : TRUE,
                CHOOSE v \in VolumeProfiles : TRUE, CHOOSE f \in FeeProfiles : TRUE,
                CHOOSE s \in HistoryProfiles : TRUE, CHOOSE h \in HtlcProfiles : TRUE,
                CHOOSE r \in RoleProfiles : TRUE, CHOOSE k \in SinkProfiles : TRUE,
                CHOOSE sk \in SkipProfiles : TRUE, PolicyProfile, 0, 50)

RulesInit ==
    /\ rule_ctx \in Contexts
    /\ best_outbound = {}
    /\ best_inbound = {}
    /\ evaluated = FALSE

RulesIdle ==
    /\ rule_ctx = IdleContext
    /\ best_outbound = {}
    /\ best_inbound = {}
    /\ evaluated = FALSE

\* best_outbound, best_inbound = evaluate_fee_rules(ctx)
Evaluate ==
    /\ ~evaluated
    /\ LET best == evaluate_fee_rules(rule_ctx)
       IN  /\ best_outbound' = best.best_outbound
           /\ best_inbound' = best.best_inbound
    /\ evaluated' = TRUE
    /\ UNCHANGED rule_ctx
    /\ UNCHANGED notRules

RulesNext == Evaluate

(***************************************************************************)
(* One peer's fee cycle: autotune/autotune.py adjust_channel_fees and the  *)
(* clamp that recommend_and_update_fees applies to its result, followed    *)
(* over the cycles of fee_manager.update_all_fees.                         *)
(*                                                                         *)
(* Times are minutes.  peer is the peer's section of the peer memory; an   *)
(* optional key is a set with at most one element.  conf_fees are the      *)
(* peer's min_fee_ppm and max_fee_ppm in the charge-lnd configuration,     *)
(* which update_all_fees rewrites from the recommendations unless it runs  *)
(* in observe mode.                                                        *)
(*                                                                         *)
(* The statements of adjust_channel_fees are followed as written.  The     *)
(* call Context(...) at autotune.py:612 leaves out the fields peer_mem,    *)
(* channel_data, prev_ema_blended, prev_rev_ema_blended,                   *)
(* last_successful_fee and htlc_stats that the rules read, and the         *)
(* unpacking at autotune.py:653 names four values while RuleResult yields  *)
(* five; here the context takes those fields from the section and the      *)
(* cycle's HTLC statistics, and the unpacking takes rule_id, new_min and   *)
(* new_max.                                                                *)
(***************************************************************************)
CyclePolicy ==
    [increment_ppm |-> 25, min_ppm |-> 0, max_ppm |-> 2500, bump_max |-> 25,
     min_max_ratio |-> 50,
     cooldown_hours |-> 2, failed_bump_flag_hours |-> 3, fee_backoff_hours |-> 4,
     failed_htlc_threshold |-> 3, revenue |-> 20,
     base_delta |-> 20, role_flip_days |-> 3, role_flip_bonus |-> 10,
     high_ema_delta_threshold |-> 500000, high_rev_delta_threshold |-> 500,
     high_delta_bonus |-> 10, mid_streak_min |-> 3, mid_streak_max |-> 6,
     mid_streak_bonus |-> 5, high_streak_bonus |-> 10, early_streak_max |-> 5,
     early_streak_penalty |-> 3, min_delta |-> 3, max_delta |-> 50,
     inbound_max_fee_ppm |-> 1500]

\* the same policy as enforce_policy reads it: the peer's channel entry caps
\* its fee with max_range_ppm
CycleClampPolicy ==
    [fees_min_ppm |-> {CyclePolicy.min_ppm}, fees_max_ppm |-> {CyclePolicy.max_ppm},
     inbound_max_ppm |-> {}, inbound_min_ppm |-> {}, inbound_increment_ppm |-> {},
     min_range_ppm |-> {}, max_range_ppm |-> {19},
     min_inbound_fee_ppm |-> {}, max_inbound_fee_ppm |-> {}]

\* round(n * ratio) for a ratio in percent: Python rounds a half to even
RoundRatio(n, ratio) ==
    LET q == (n * ratio) \div 100
        r == (n * ratio) % 100
    IN  IF 2 * r < 100 THEN q
        ELSE IF 2 * r > 100 THEN q + 1
        ELSE IF q % 2 = 0 THEN q ELSE q + 1

\* get_dynamic_delta_threshold, in percent
get_dynamic_delta_threshold(sec, inp, pol) ==
    LET streak == sec.fee_bump_streak
        b0 == pol.base_delta
        b1 == IF inp.days_since_flip <= pol.role_flip_days
              THEN b0 - pol.role_flip_bonus ELSE b0
        b2 == IF \/ Abs(inp.ema_delta) > pol.high_ema_delta_threshold
                 \/ Abs(inp.rev_delta) > pol.high_rev_delta_threshold
              THEN b1 - pol.high_delta_bonus ELSE b1
        b3 == IF pol.mid_streak_min <= streak /\ streak <= pol.mid_streak_max
              THEN b2 - pol.mid_streak_bonus ELSE b2
        b4 == IF streak >= pol.mid_streak_max + 1 THEN b3 - pol.high_streak_bonus ELSE b3
        b5 == IF streak <= pol.early_streak_max /\ streak # 0
              THEN b4 + pol.early_streak_penalty ELSE b4
    IN  Max2(pol.min_delta, Min2(pol.max_delta, b5))

\* What a cycle finds outside the peer's section: the metrics that
\* process_channel_data and compute_sink_risk_score put into the section,
\* the HTLC statistics, the skip flag of get_htlc_sizes, and the minutes since
\* the cycle before.
CycleInput(e, v, h, k, skip, dt) ==
    [ema_blended |-> e.ema_blended, ema_delta |-> e.ema_delta,
     rev_ema_blended |-> 100, prev_rev_ema_blended |-> 100,
     rev_delta |-> e.ema_delta \div 500,
     vol |-> v, vol_int |-> v, revenue |-> v \div 2000,
     rate_1h |-> h.rate_1h, fails_1h |-> h.fails_1h, rate_24h |-> h.rate_24h,
     role |-> "balanced", days_since_flip |-> 5,
     sink_risk_score |-> k.sink_risk_score, sink_ratio |-> k.sink_ratio,
     sink_delta |-> k.sink_delta, ema_from_target |-> k.ema_from_target,
     percentage_outbound |-> IF skip THEN 2 ELSE 50,
     skip_outbound_fee_adjust |-> skip, skip_inbound_fee_adjust |-> FALSE,
     elapsed |-> dt]

EmaInputs ==
    {[ema_blended |-> 150000, ema_delta |-> -50000],
     [ema_blended |-> 250000, ema_delta |-> 50000]}

QuietHtlc == [rate_1h |-> 0, fails_1h |-> 0, rate_24h |-> 0]

FailingHtlc == [rate_1h |-> 50, fails_1h |-> 30, rate_24h |-> 40]

CalmSink ==
    [sink_risk_score |-> 5, sink_ratio |-> 10, sink_delta |-> 0,
     ema_from_target |-> 0]

SinkInputs ==
    {[sink_risk_score |-> 9, sink_ratio |-> 10, sink_delta |-> 0,
      ema_from_target |-> 0],
     [sink_risk_score |-> 5, sink_ratio |-> 60, sink_delta |-> 6,
      ema_from_target |-> 0]}

Elapsed == {30, 120}

\* a dormant peer: blended EMA under, at and just over the floor
DormantEmaInputs ==
    {[ema_blended |-> 500, ema_delta |-> 0],
     [ema_blended |-> EmaFloor, ema_delta |-> 0],
     [ema_blended |-> EmaFloor + 1, ema_delta |-> 0]}

\* what one cycle observes of the peer: a calm peer under every traffic
\* profile, a peer that drains, a peer whose outbound adjustment is skipped
\* and a dormant peer
CycleInputs ==
    {CycleInput(e, v, h, CalmSink, FALSE, dt) :
        e \in EmaInputs, v \in {0, 20000}, h \in {QuietHtlc, FailingHtlc},
        dt \in Elapsed}
    \cup {CycleInput(e, 20000, QuietHtlc, k, FALSE, dt) :
        e \in EmaInputs, k \in SinkInputs, dt \in Elapsed}
    \cup {CycleInput(e, 20000, QuietHtlc, CalmSink, TRUE, dt) :
        e \in EmaInputs, dt \in Elapsed}
    \cup {CycleInput(e, 0, QuietHtlc, CalmSink, FALSE, dt) :
        e \in DormantEmaInputs, dt \in Elapsed}

\* a section without any key: peer_mem.get(section_name, {}).  A key that is
\* only ever read with a default of 0 holds 0 while it is absent.
NoSection ==
    [fee |-> {}, last_successful_fee |-> {}, last_successful_inbound_fee |-> {},
     cooldown_until |-> {}, fee_increase_failed_at |-> {},
     fee_bump_attempted_at |-> {}, last_daily_vol |-> {},
     inbound_fee |-> 0, fee_bump_streak |-> 0, htlc_fail_count |-> 0,
     zero_ema_count |-> 0, prev_ema_blended |-> 0]

\* Context(...) as adjust_channel_fees fills it
BuildContext(sec, lines, inp, pol) ==
    LET fee == Get(sec.fee, lines.max_fee_ppm)
    IN  [vol |-> inp.vol, vol_int |-> inp.vol_int, revenue |-> inp.revenue,
         prev_ema_blended |-> sec.prev_ema_blended,
         ema_blended |-> inp.ema_blended, ema_delta |-> inp.ema_delta,
         prev_rev_ema_blended |-> inp.prev_rev_ema_blended,
         rev_ema_blended |-> inp.rev_ema_blended, rev_delta |-> inp.rev_delta,
         last_daily_vol |-> Get(sec.last_daily_vol, inp.vol),
         last_successful_fee |->
             IF inp.vol_int > 0 THEN fee ELSE Get(sec.last_successful_fee, -1),
         fee |-> fee, min_fee |-> lines.min_fee_ppm, max_fee |-> lines.max_fee_ppm,
         inbound_fee |-> sec.inbound_fee,
         fee_bump_streak |-> sec.fee_bump_streak,
         zero_ema_count |-> sec.zero_ema_count,
         rate_1h |-> inp.rate_1h, fails_1h |-> inp.fails_1h, rate_24h |-> inp.rate_24h,
         role |-> inp.role, days_since_flip |-> inp.days_since_flip,
         sink_risk_score |-> inp.sink_risk_score, sink_ratio |-> inp.sink_ratio,
         sink_delta |-> inp.sink_delta, ema_from_target |-> inp.ema_from_target,
         FEE_INCREMENT_PPM |-> pol.increment_ppm, FEE_MIN_PPM |-> pol.min_ppm,
         FEE_MAX_PPM |-> pol.max_ppm,
         DELTA_THRESHOLD |-> get_dynamic_delta_threshold(sec, inp, pol),
         REVENUE_THRESHOLD |-> pol.revenue, FEE_BUMP_MAX |-> pol.bump_max,
         inbound_max_fee_ppm |-> pol.inbound_max_fee_ppm,
         percentage_outbound |-> inp.percentage_outbound,
         skip_outbound_fee_adjust |-> inp.skip_outbound_fee_adjust,
         skip_inbound_fee_adjust |-> inp.skip_inbound_fee_adjust]

\* the second branch of the streak tracking: the streak is reset when no bump
\* was applied and the max fee stayed, or when the failure cooldown held the
\* bump back
StreakResetWithoutFailCooldown(fee_bump_applied, cooldown, max_unchanged, fail_cooldown) ==
    ~fee_bump_applied /\ ~cooldown /\ max_unchanged

StreakReset(fee_bump_applied, cooldown, max_unchanged, fail_cooldown) ==
    \/ ~fee_bump_applied /\ ~cooldown /\ max_unchanged
    \/ fail_cooldown

\* the zero-EMA bookkeeping at the end of adjust_channel_fees
zero_ema_count_below(count, ema_blended) ==
    IF ema_blended < EmaFloor THEN count + 1 ELSE 0

zero_ema_count_after(count, ema_blended) ==
    IF ema_blended <= EmaFloor THEN count + 1 ELSE 0

\* the failure counter the cycle leaves in the section: cleared by the
\* escape hatch, otherwise written back as it was read
htlc_fail_count_kept(escape, failed_htlc_count) ==
    failed_htlc_count

htlc_fail_count_after(escape, failed_htlc_count) ==
    IF escape THEN 0 ELSE failed_htlc_count

\* the cooldown an applied outbound change starts, in minutes
cooldown_period_short(new_max, pol) ==
    60 - 1

cooldown_period(new_max, pol) ==
    IF new_max > pol.increment_ppm THEN 60 * pol.cooldown_hours - 1
    ELSE 60 - 1

\* adjust_channel_fees for a section, the configured fees found in the
\* configuration lines, the cycle's inputs and the time at
adjust_with_rules(sec, lines, inp, at, observe_only, pol, ctx, best) ==
    LET min_fee == lines.min_fee_ppm
        max_fee == lines.max_fee_ppm
        fee == Get(sec.fee, max_fee)
        inbound_fee == sec.inbound_fee
        fee_bump_streak == sec.fee_bump_streak
        cooldown == sec.cooldown_until # {} /\ at <= Get(sec.cooldown_until, 0)
        failed_htlc_count == sec.htlc_fail_count
        skip_outbound == inp.skip_outbound_fee_adjust
        adjusts == ~observe_only /\ ~cooldown
        escape == adjusts /\ failed_htlc_count >= pol.failed_htlc_threshold
        out_applied == adjusts /\ ~escape /\ best.best_outbound # {} /\ ~skip_outbound
        in_applied == /\ adjusts /\ ~escape /\ best.best_inbound # {}
                      /\ ~inp.skip_inbound_fee_adjust
        out_rule == CHOOSE r \in best.best_outbound : TRUE
        in_rule == CHOOSE r \in best.best_inbound : TRUE
        bump == calculate_exponential_fee_bump(max_fee, fee_bump_streak, ctx)
        \* the fees before the negative-fee catch, which go into new_fees
        proposed_max == IF escape THEN bump.new_max
                        ELSE IF out_applied THEN out_rule.new_max
                        ELSE IF adjusts THEN max_fee
                        ELSE fee
        proposed_min == IF escape THEN bump.new_min
                        ELSE IF out_applied THEN out_rule.new_min
                        ELSE IF adjusts THEN min_fee
                        ELSE RoundRatio(fee, pol.min_max_ratio)
        new_inbound_fee == IF in_applied THEN Get(in_rule.inbound_fee, inbound_fee)
                           ELSE inbound_fee
        cooldown_override == out_applied /\ out_rule.rule_id = "F3_ema_sink_guard"
        fee_bump_applied == adjusts /\ ~escape /\ proposed_max > max_fee
        negative == proposed_max < 0 \/ proposed_min < 0
        new_max == IF negative THEN 0 ELSE proposed_max
        new_min == IF negative THEN 0 ELSE proposed_min
        in_backoff == /\ fee_bump_applied
                      /\ sec.fee_increase_failed_at # {}
                      /\ at - Get(sec.fee_increase_failed_at, 0) < 60 * pol.fee_backoff_hours
        fail_cooldown == in_backoff /\ ~cooldown_override
        outbound_updated ==
            \/ out_applied
            \/ in_backoff /\ cooldown_override
            \/ (new_min # min_fee \/ new_max # max_fee) /\ ~fail_cooldown
        tracks == ~observe_only /\ ~cooldown /\ ~skip_outbound
        bump_failed == /\ tracks
                       /\ ~fee_bump_applied
                       /\ sec.fee_bump_attempted_at # {}
                       /\ at - Get(sec.fee_bump_attempted_at, 0)
                              < 60 * pol.failed_bump_flag_hours
        bump_reset == /\ tracks /\ ~bump_failed
                      /\ StreakReset(fee_bump_applied, cooldown, new_max = max_fee,
                                     fail_cooldown)
        bump_counted == tracks /\ ~bump_failed /\ ~bump_reset /\ fee_bump_applied
        period == cooldown_period(new_max, pol)
    IN  [section |->
             [sec EXCEPT
                 !.last_successful_fee = IF inp.vol_int > 0 THEN {fee} ELSE @,
                 !.htlc_fail_count = htlc_fail_count_after(escape, failed_htlc_count),
                 !.fee_increase_failed_at = IF bump_failed THEN {at} ELSE @,
                 !.fee_bump_attempted_at = IF bump_counted THEN {at - 1} ELSE @,
                 !.fee_bump_streak = IF bump_failed \/ bump_reset THEN 0
                                     ELSE IF bump_counted THEN fee_bump_streak + 1
                                     ELSE @,
                 !.fee = IF outbound_updated THEN {new_max} ELSE @,
                 !.cooldown_until = IF outbound_updated THEN {at + period} ELSE @,
                 !.inbound_fee = IF in_applied THEN new_inbound_fee ELSE @,
                 !.zero_ema_count = zero_ema_count_after(@, inp.ema_blended),
                 !.last_daily_vol = {inp.vol},
                 !.prev_ema_blended = inp.ema_blended],
         new_fees |-> [min_fee_ppm |-> proposed_min, max_fee_ppm |-> proposed_max,
                       inbound_fee_ppm |-> new_inbound_fee],
         cooldown |-> cooldown, outbound_updated |-> outbound_updated,
         fee_bump_applied |-> fee_bump_applied, fail_cooldown |-> fail_cooldown,
         new_min |-> new_min, new_max |-> new_max,
         best_outbound |-> best.best_outbound,
         escape |-> escape, bump |-> bump,
         rule_ids |-> (IF out_applied THEN {out_rule.rule_id} ELSE {})
                      \cup (IF in_applied THEN {in_rule.rule_id} ELSE {})]

\* adjust_channel_fees: the context is built and the rules are evaluated once
adjust_channel_fees(sec, lines, inp, at, observe_only, pol) ==
    CHOOSE adjusted \in
        UNION {{adjust_with_rules(sec, lines, inp, at, observe_only, pol, ctx, best) :
                   best \in {evaluate_fee_rules(ctx)}} :
               ctx \in {BuildContext(sec, lines, inp, pol)}} : TRUE

\* recommend_and_update_fees from adjust_channel_fees on: the adjustment,
\* then the clamp of its fees and of the section
clamp_adjusted(adjusted) ==
    LET st == adjusted.section
        clamped == enforce_policy(adjusted.new_fees,
                                  [fee |-> Get(st.fee, 0),
                                   last_successful_fee |-> st.last_successful_fee,
                                   last_successful_inbound_fee |->
                                       st.last_successful_inbound_fee,
                                   inbound_fee |-> st.inbound_fee],
                                  CycleClampPolicy)
    IN  [rec |-> clamped.fees,
         state |-> [st EXCEPT !.fee = {clamped.state.fee},
                              !.inbound_fee = clamped.state.inbound_fee],
         adjusted |-> adjusted]

recommend_and_update_fees(sec, lines, inp, at, observe_only) ==
    CHOOSE result \in
        {clamp_adjusted(adjusted) :
            adjusted \in {adjust_channel_fees(sec, lines, inp, at, observe_only,
                                              CyclePolicy)}} : TRUE

ConfiguredFees ==
    {[min_fee_ppm |-> 0, max_fee_ppm |-> 1],
     [min_fee_ppm |-> 5, max_fee_ppm |-> 10],
     [min_fee_ppm |-> 15, max_fee_ppm |-> 30]}

NoCycle ==
    [ran |-> FALSE]

CycleInit ==
    /\ peer = NoSection
    /\ conf_fees \in ConfiguredFees
    /\ observe \in BOOLEAN
    /\ cyc_now = 0
    /\ last = NoCycle
    /\ cruns = 0

\* a peer memory whose section holds a negative fee, with and without a
\* cooldown that is still running: the file is read as it is, no key is
\* validated
NegativeFees == {-5, -1}

NegativeFeeInit ==
    /\ peer \in {[NoSection EXCEPT !.fee = {f}, !.cooldown_until = c] :
                    f \in NegativeFees, c \in {{}, {90}}}
    /\ conf_fees \in ConfiguredFees
    /\ observe \in BOOLEAN
    /\ cyc_now = 0
    /\ last = NoCycle
    /\ cruns = 0

\* a peer memory whose section holds a failure count under, at and over the
\* threshold, with and without a cooldown that is still running
EscapeInit ==
    /\ peer \in {[NoSection EXCEPT !.htlc_fail_count = n, !.cooldown_until = c] :
                    n \in {CyclePolicy.failed_htlc_threshold - 1,
                           CyclePolicy.failed_htlc_threshold,
                           CyclePolicy.failed_htlc_threshold + 1},
                    c \in {{}, {90}}}
    /\ conf_fees = [min_fee_ppm |-> 5, max_fee_ppm |-> 10]
    /\ observe \in BOOLEAN
    /\ cyc_now = 0
    /\ last = NoCycle
    /\ cruns = 0

CycleIdle ==
    /\ peer = NoSection
    /\ conf_fees = CHOOSE f \in ConfiguredFees : TRUE
    /\ observe = FALSE
    /\ cyc_now = 0
    /\ last = NoCycle
    /\ cruns = 0

\* update_all_fees for the peer: the recommendation, the section put back into
\* the peer memory, and the configuration rewritten unless in observe mode
Cycle ==
    /\ cruns < MaxCycleRuns
    /\ \E inp \in CycleInputs :
          \E at \in {cyc_now + inp.elapsed} :
          \E result \in {recommend_and_update_fees(peer, conf_fees, inp, at, observe)} :
              /\ cyc_now' = at
              /\ peer' = result.state
              /\ conf_fees' = IF observe THEN conf_fees
                              ELSE [min_fee_ppm |-> result.rec.min_fee_ppm,
                                    max_fee_ppm |-> result.rec.max_fee_ppm]
              /\ last' = [ran |-> TRUE, at |-> at, inp |-> inp,
                          section |-> peer, lines |-> conf_fees,
                          rec |-> result.rec, adjusted |-> result.adjusted]
    /\ cruns' = cruns + 1
    /\ UNCHANGED observe
    /\ UNCHANGED notCycle

CycleNext == Cycle

(***************************************************************************)
(* The volume EMAs: autotune/autotune.py, get_adaptive_alpha and the EMA   *)
(* update of process_channel_data.  Alphas are in percent and an updated   *)
(* EMA is kept in hundredths of a sat, so that alpha * (x - ema) is exact. *)
(***************************************************************************)
\* the alpha section of the policy, in percent
AlphaPolicy ==
    [role_flip_days |-> 3, min_role_flips |-> 2, zero_ema_trigger |-> 1,
     weighted_1d |-> 11, weighted_5d |-> 22, weighted_7d |-> 33,
     zero_ema_max_1d |-> 20, zero_ema_max_5d |-> 30, zero_ema_max_7d |-> 40,
     zero_ema_1d_boost |-> 2, zero_ema_5d_boost |-> 3, zero_ema_7d_boost |-> 4,
     fee_bump_streak_threshold |-> 2,
     fee_bump_min_1d |-> 4, fee_bump_min_5d |-> 5, fee_bump_min_7d |-> 6,
     fee_bump_decay_1d |-> 1, fee_bump_decay_5d |-> 2, fee_bump_decay_7d |-> 3,
     balanced_1d |-> 7, balanced_5d |-> 8, balanced_7d |-> 9]

\* the alpha triple for a section: the first branch that matches
get_adaptive_alpha(sec, alpha) ==
    IF /\ sec.days_since_flip <= alpha.role_flip_days
       /\ sec.role_flips >= alpha.min_role_flips
    THEN <<alpha.weighted_1d, alpha.weighted_5d, alpha.weighted_7d>>
    ELSE IF sec.zero_ema_count >= alpha.zero_ema_trigger
    THEN <<Min2(alpha.zero_ema_max_1d, alpha.balanced_1d + alpha.zero_ema_1d_boost),
           Min2(alpha.zero_ema_max_5d, alpha.balanced_5d + alpha.zero_ema_5d_boost),
           Min2(alpha.zero_ema_max_7d, alpha.balanced_7d + alpha.zero_ema_7d_boost)>>
    ELSE IF sec.fee_bump_streak >= alpha.fee_bump_streak_threshold
    THEN <<Max2(alpha.fee_bump_min_1d, alpha.balanced_1d - alpha.fee_bump_decay_1d),
           Max2(alpha.fee_bump_min_5d, alpha.balanced_5d - alpha.fee_bump_decay_5d),
           Max2(alpha.fee_bump_min_7d, alpha.balanced_7d - alpha.fee_bump_decay_7d)>>
    ELSE <<alpha.balanced_1d, alpha.balanced_5d, alpha.balanced_7d>>

\* ema + alpha * (x - ema), in hundredths
ema_update_from_zero(ema, alpha_h, x) ==
    alpha_h * x

ema_update(ema, alpha_h, x) ==
    100 * ema + alpha_h * (x - ema)

\* the three updated horizon EMAs of process_channel_data, in hundredths,
\* with three times the blended EMA before and after (after in hundredths)
update_emas(sec, vol, alpha) ==
    LET a == get_adaptive_alpha(sec, alpha)
        ema_1d_new == ema_update(sec.ema_1d, a[1], vol)
        ema_5d_new == ema_update(sec.ema_5d, a[2], vol)
        ema_7d_new == ema_update(sec.ema_7d, a[3], vol)
    IN  [done |-> TRUE, alphas |-> a,
         ema_1d_new |-> ema_1d_new, ema_5d_new |-> ema_5d_new,
         ema_7d_new |-> ema_7d_new,
         blended_before_x3 |-> sec.ema_1d + sec.ema_5d + sec.ema_7d,
         blended_after_x300 |-> ema_1d_new + ema_5d_new + ema_7d_new]

\* horizon EMAs in multiples of 300 sats: their mean is a whole number of
\* hundreds
HorizonLevels == {0, 300, 600}

\* one section for each branch of get_adaptive_alpha
AlphaStates ==
    {[days_since_flip |-> 2, role_flips |-> 2, fee_bump_streak |-> 0, zero_ema_count |-> 0],
     [days_since_flip |-> 10, role_flips |-> 0, fee_bump_streak |-> 0, zero_ema_count |-> 1],
     [days_since_flip |-> 10, role_flips |-> 0, fee_bump_streak |-> 2, zero_ema_count |-> 0],
     [days_since_flip |-> 10, role_flips |-> 0, fee_bump_streak |-> 0, zero_ema_count |-> 0]}

EmaSections ==
    {[ema_1d |-> e1, ema_5d |-> e5, ema_7d |-> e7,
      days_since_flip |-> st.days_since_flip, role_flips |-> st.role_flips,
      fee_bump_streak |-> st.fee_bump_streak, zero_ema_count |-> st.zero_ema_count] :
        e1 \in HorizonLevels, e5 \in HorizonLevels, e7 \in HorizonLevels,
        st \in AlphaStates}

\* the 24h outbound totals tried on a section: its blended EMA, none, a surge
Samples(sec) == {(sec.ema_1d + sec.ema_5d + sec.ema_7d) \div 3, 0, 900}

NoEmas == [done |-> FALSE]

EmaInit ==
    /\ ema_sec \in EmaSections
    /\ ema_vol = 0
    /\ ema_res = NoEmas

EmaIdle ==
    /\ ema_sec = CHOOSE sec \in EmaSections : TRUE
    /\ ema_vol = 0
    /\ ema_res = NoEmas

\* process_channel_data updates the EMAs with the day's outbound total
ProcessSample ==
    /\ ~ema_res.done
    /\ \E vol \in Samples(ema_sec) :
          /\ ema_vol' = vol
          /\ ema_res' = update_emas(ema_sec, vol, AlphaPolicy)
    /\ UNCHANGED ema_sec
    /\ UNCHANGED notEma

EmaNext == ProcessSample

(***************************************************************************)
(* calculate_exponential_fee_bump on its own: autotune/autotune.py.        *)
(***************************************************************************)
\* fee policies: the two of the function's tests, the one of the fee
\* manager's tests, and a node that caps its fees under the increment
FeePolicies ==
    {[FEE_INCREMENT_PPM |-> 25, FEE_MAX_PPM |-> 2500, FEE_BUMP_MAX |-> 1000],
     [FEE_INCREMENT_PPM |-> 25, FEE_MAX_PPM |-> 100, FEE_BUMP_MAX |-> 60],
     [FEE_INCREMENT_PPM |-> 25, FEE_MAX_PPM |-> 2500, FEE_BUMP_MAX |-> 25],
     [FEE_INCREMENT_PPM |-> 25, FEE_MAX_PPM |-> 20, FEE_BUMP_MAX |-> 25]}

CurrentFees == (0 .. MaxBumpFee) \cup {100, 1000, 2450, 2500}

NoBump == [done |-> FALSE]

BumpInit ==
    /\ bump_fee \in CurrentFees
    /\ bump_streak \in 0 .. MaxStreak
    /\ bump_fees \in FeePolicies
    /\ bump_res = NoBump

BumpIdle ==
    /\ bump_fee = 0
    /\ bump_streak = 0
    /\ bump_fees = CHOOSE fees \in FeePolicies : TRUE
    /\ bump_res = NoBump

\* one call of calculate_exponential_fee_bump(current_fee, streak, fees)
Bump ==
    /\ ~bump_res.done
    /\ \E res \in {calculate_exponential_fee_bump(bump_fee, bump_streak, bump_fees)} :
          bump_res' = [done |-> TRUE, new_max |-> res.new_max,
                       new_min |-> res.new_min, bump |-> res.bump]
    /\ UNCHANGED <<bump_fee, bump_streak, bump_fees>>
    /\ UNCHANGED notBump

BumpNext == Bump

(***************************************************************************)
(* One full cycle for a peer whose EMAs are all 0: autotune/autotune.py,   *)
(* recommend_and_update_fees from process_channel_data on.  The peer has   *)
(* no inbound traffic, no sink score from the cycle before and no HTLC     *)
(* failures.  The volumes are multiples of 300 sats and the alphas of      *)
(* AlphaPolicy add up to multiples of 3, so that the blended EMA after a   *)
(* first update is a whole number.                                         *)
(***************************************************************************)
\* the weights of the signals compute_sink_risk_score adds up, in tenths
sink_risk_signals(state_section) ==
    (IF /\ state_section.ema_blended > 25000
        /\ state_section.ema_delta < 0 THEN 4 ELSE 0)
    + (IF /\ state_section.rev_ema_blended < 100
          /\ state_section.rev_delta <= 0 THEN 3 ELSE 0)
    + (IF state_section.zero_ema_count >= 1 THEN 2 ELSE 0)
    + (IF state_section.fee_bump_streak >= 5 THEN 1 ELSE 0)

\* compute_sink_risk_score in tenths; sink_risk_score is the score of the
\* cycle before, 0 for a section without one
compute_sink_risk_score(state_section) ==
    LET score == sink_risk_signals(state_section)
        prev_score == state_section.sink_risk_score
    IN  IF score < 5 THEN Max2(0, prev_score - 1) ELSE Min2(10, score)

\* the metrics process_channel_data and compute_sink_risk_score put into
\* the section of a peer whose revenue EMAs are all 0
process_channel_data(st, sample, alpha) ==
    LET emas == update_emas(st, sample.vol, alpha)
        a == emas.alphas
        ema_blended == emas.blended_after_x300 \div 300
        rev_ema_blended == ((a[1] + a[2] + a[3]) * sample.revenue) \div 300
        ema_delta == sample.vol - ema_blended
        rev_delta == sample.revenue - rev_ema_blended
    IN  [ema_blended |-> ema_blended, ema_delta |-> ema_delta,
         rev_ema_blended |-> rev_ema_blended, prev_rev_ema_blended |-> 0,
         rev_delta |-> rev_delta,
         vol |-> sample.vol, vol_int |-> sample.vol_int,
         revenue |-> sample.revenue,
         rate_1h |-> 0, fails_1h |-> 0, rate_24h |-> 0,
         role |-> classify_peer(0, sample.vol, 1),
         days_since_flip |-> st.days_since_flip,
         sink_risk_score |->
             compute_sink_risk_score(
                 [ema_blended |-> ema_blended, ema_delta |-> ema_delta,
                  rev_ema_blended |-> rev_ema_blended, rev_delta |-> rev_delta,
                  zero_ema_count |-> st.zero_ema_count,
                  fee_bump_streak |-> st.fee_bump_streak,
                  sink_risk_score |-> 0]),
         sink_ratio |-> 10 \div Max2(sample.vol, 1),
         sink_delta |-> 0,
         ema_from_target |-> SinkEmaTarget - emas.blended_before_x3 \div 3,
         ema_1d_new |-> emas.ema_1d_new, ema_5d_new |-> emas.ema_5d_new,
         ema_7d_new |-> emas.ema_7d_new,
         percentage_outbound |-> 50,
         skip_outbound_fee_adjust |-> FALSE, skip_inbound_fee_adjust |-> FALSE,
         elapsed |-> 30]

\* a role and streak state with EMAs of 0
ZeroEmas(st) ==
    [ema_1d |-> 0, ema_5d |-> 0, ema_7d |-> 0,
     days_since_flip |-> st.days_since_flip, role_flips |-> st.role_flips,
     fee_bump_streak |-> st.fee_bump_streak,
     zero_ema_count |-> st.zero_ema_count]

\* the peer's section before the cycle: the volume of the cycle before is 0
FullCycleSection(st) ==
    [NoSection EXCEPT !.last_daily_vol = {0},
                      !.fee_bump_streak = st.fee_bump_streak,
                      !.zero_ema_count = st.zero_ema_count]

\* the role and streak states of AlphaStates and a peer seen for the first
\* time
FullCycleStates ==
    AlphaStates
    \cup {[days_since_flip |-> 0, role_flips |-> 1, fee_bump_streak |-> 0,
           zero_ema_count |-> 0]}

\* the configured fees of a peer at 1 ppm
BootstrapFees ==
    {[min_fee_ppm |-> 0, max_fee_ppm |-> 1],
     [min_fee_ppm |-> 1, max_fee_ppm |-> 1]}

\* the day's outbound volume, the interval's outbound volume and the day's
\* revenue
FullCycleSamples ==
    {[vol |-> v, vol_int |-> vi, revenue |-> r] :
        v \in {0, 30000, 150000, 600000}, vi \in {0, 3000}, r \in {0, 500}}

NoFullCycle == [ran |-> FALSE]

FullCycleInit ==
    /\ fc_state \in FullCycleStates
    /\ fc_lines \in BootstrapFees
    /\ fc_res = NoFullCycle

FullCycleIdle ==
    /\ fc_state = CHOOSE st \in FullCycleStates : TRUE
    /\ fc_lines = CHOOSE f \in BootstrapFees : TRUE
    /\ fc_res = NoFullCycle

\* recommend_and_update_fees for the peer
FullCycle ==
    /\ ~fc_res.ran
    /\ \E sample \in FullCycleSamples :
       \E inp \in {process_channel_data(ZeroEmas(fc_state), sample, AlphaPolicy)} :
       \E result \in {recommend_and_update_fees(FullCycleSection(fc_state),
                                                fc_lines, inp, inp.elapsed, FALSE)} :
           fc_res' = [ran |-> TRUE, sample |-> sample, inp |-> inp,
                      rec |-> result.rec, state |-> result.state,
                      adjusted |-> result.adjusted]
    /\ UNCHANGED <<fc_state, fc_lines>>
    /\ UNCHANGED notFull

FullCycleNext == FullCycle

(***************************************************************************)
(* The fee manager: autotune/fee_manager.py, FeeManager.update_all_fees.   *)
(* The peer memory and the charge-lnd configuration are files; a cycle     *)
(* loads them, processes the configured peers in the order of the policy,  *)
(* and saves.  A section is kept as the section of the cycle above, its    *)
(* three volume EMAs in whole sats, and whether its cooldown_until is a    *)
(* string that datetime.fromisoformat rejects.  Channel information and    *)
(* HTLC statistics are left out of a section.                              *)
(***************************************************************************)
\* policy.channels, in the order the loop visits them
ManagerPeers == <<"alice", "bob">>

PeerNames == {ManagerPeers[i] : i \in 1 .. Len(ManagerPeers)}

ManagerSection(ema, malformed) ==
    [sec |-> NoSection, ema_1d |-> ema, ema_5d |-> ema, ema_7d |-> ema,
     malformed |-> malformed]

\* what get_forwarding_events returns: "" twice when docker or lncli fails,
\* or the histories, told by each peer's outbound volume of the day
ForwardingOutcomes ==
    {[fetched |-> FALSE, vol |-> [p \in PeerNames |-> 0]]}
    \cup {[fetched |-> TRUE, vol |-> v] : v \in [PeerNames -> {0, 600000}]}

\* parse_forwarding_data for a peer: zero totals when the history does not
\* parse as JSON
parse_forwarding_data(fwd, p) ==
    IF fwd.fetched
    THEN [vol |-> fwd.vol[p], vol_int |-> 0,
          revenue |-> IF fwd.vol[p] > 0 THEN 500 ELSE 0]
    ELSE [vol |-> 0, vol_int |-> 0, revenue |-> 0]

\* recommend_and_update_fees for one peer of the loop: raised is TRUE when
\* adjust_channel_fees fails to parse the section's cooldown_until
manager_peer(st, lines, sample, at, observe_only) ==
    IF st.malformed THEN [raised |-> TRUE]
    ELSE CHOOSE out \in UNION {UNION {
             {[raised |-> FALSE, rec |-> result.rec,
               state |-> [sec |-> result.state,
                          ema_1d |-> inp.ema_1d_new \div 100,
                          ema_5d |-> inp.ema_5d_new \div 100,
                          ema_7d |-> inp.ema_7d_new \div 100,
                          malformed |-> FALSE]]} :
             result \in {recommend_and_update_fees(st.sec, lines, inp, at,
                                                   observe_only)}} :
             inp \in {process_channel_data(
                          [ema_1d |-> st.ema_1d, ema_5d |-> st.ema_5d,
                           ema_7d |-> st.ema_7d, days_since_flip |-> 10,
                           role_flips |-> 0,
                           fee_bump_streak |-> st.sec.fee_bump_streak,
                           zero_ema_count |-> st.sec.zero_ema_count],
                          sample, AlphaPolicy)}} : TRUE

\* the loop over policy.channels from peer i on: it ends after the last
\* peer, or at the first peer whose processing raises
RECURSIVE manager_loop(_, _, _, _, _, _, _, _)
manager_loop(i, mem, recs, done, lines, fwd, at, observe_only) ==
    IF i > Len(ManagerPeers)
    THEN [raised |-> FALSE, peer_mem |-> mem, recommendations |-> recs,
          processed |-> done]
    ELSE LET p == ManagerPeers[i]
         IN  CHOOSE res \in UNION {
                 {IF out.raised
                  THEN [raised |-> TRUE, peer_mem |-> mem,
                        recommendations |-> recs, processed |-> done]
                  ELSE manager_loop(i + 1, [mem EXCEPT ![p] = out.state],
                                    [recs EXCEPT ![p] = {out.rec}],
                                    done \cup {p}, lines, fwd, at, observe_only)} :
                 out \in {manager_peer(mem[p], lines[p],
                                       parse_forwarding_data(fwd, p), at,
                                       observe_only)}} : TRUE

\* the condition under which the cycle writes the charge-lnd configuration
writes_config_on_apply(apply_changes, dry_run, ema_observe) ==
    apply_changes

writes_config(apply_changes, dry_run, ema_observe) ==
    apply_changes /\ ~dry_run /\ ~ema_observe

NoManagerCycle == [ran |-> FALSE]

ManagerInit ==
    /\ disk_mem \in [PeerNames -> {ManagerSection(e, b) :
                                      e \in {0, 600000}, b \in BOOLEAN}]
    /\ disk_conf = [p \in PeerNames |-> [min_fee_ppm |-> 0, max_fee_ppm |-> 1]]
    /\ mgr_cycles = 0
    /\ mgr_last = NoManagerCycle

ManagerIdle ==
    /\ disk_mem = [p \in PeerNames |-> ManagerSection(0, FALSE)]
    /\ disk_conf = [p \in PeerNames |-> [min_fee_ppm |-> 0, max_fee_ppm |-> 1]]
    /\ mgr_cycles = 0
    /\ mgr_last = NoManagerCycle

\* the writes at the end of a completed cycle, in the order of their calls
cycle_writes(apply_changes, dry_run, ema_observe) ==
    IF writes_config(apply_changes, dry_run, ema_observe)
    THEN <<"write_charge_lnd_toml", "save_peer_memory">>
    ELSE <<"save_peer_memory">>

\* FeeManager.update_all_fees, two hours after the cycle before: load, fetch,
\* the loop, then the writes.  A peer that raises ends the call before
\* anything is written.
update_all_fees ==
    /\ mgr_cycles < MaxManagerCycles
    /\ \E apply_changes \in BOOLEAN, dry_run \in BOOLEAN, ema_observe \in BOOLEAN,
          fwd \in ForwardingOutcomes :
       \E res \in {manager_loop(1, disk_mem, [p \in PeerNames |-> {}], {},
                                disk_conf, fwd,
                                (mgr_cycles + 1) * 120, ema_observe)} :
       LET writes == ~res.raised /\ writes_config(apply_changes, dry_run, ema_observe)
       IN  /\ disk_conf' =
                  IF writes
                  THEN [p \in PeerNames |->
                           LET rec == CHOOSE r \in res.recommendations[p] : TRUE
                           IN  [min_fee_ppm |-> rec.min_fee_ppm,
                                max_fee_ppm |-> rec.max_fee_ppm]]
                  ELSE disk_conf
           /\ disk_mem' = IF res.raised THEN disk_mem ELSE res.peer_mem
           /\ mgr_last' = [ran |-> TRUE, completed |-> ~res.raised,
                           apply_changes |-> apply_changes, dry_run |-> dry_run,
                           ema_observe |-> ema_observe,
                           fetched |-> fwd.fetched,
                           processed |-> res.processed,
                           recommendations |-> res.recommendations,
                           peer_mem |-> res.peer_mem,
                           before |-> disk_mem,
                           saves |-> IF res.raised THEN 0 ELSE 1,
                           config_writes |-> IF writes THEN 1 ELSE 0,
                           calls |-> IF res.raised THEN <<>>
                                     ELSE cycle_writes(apply_changes, dry_run,
                                                       ema_observe)]
    /\ mgr_cycles' = mgr_cycles + 1
    /\ UNCHANGED notManager

ManagerNext == update_all_fees

(***************************************************************************)
(* Channel sync: autotune/sync_lnd_channels.py, merge_channels as          *)
(* update_all_states_with_channel_info applies it to one peer's section.   *)
(* A channel is a record of its channel_point, capacity and balances;      *)
(* lncli lists a channel once, so a listing holds each channel_point at    *)
(* most once.  Amounts are numbers where the code keeps decimal strings.   *)
(***************************************************************************)
ChannelPoints == {"c1", "c2", "c3"}

\* the capacity and balances a listed channel can show
ChannelValues ==
    {[capacity |-> 10, local_balance |-> 5, remote_balance |-> 5],
     [capacity |-> 10, local_balance |-> 9, remote_balance |-> 1]}

ListedChannel(cp, v) ==
    [channel_point |-> cp, capacity |-> v.capacity,
     local_balance |-> v.local_balance, remote_balance |-> v.remote_balance]

\* the sequences of distinct channel points, up to three long
PointOrders ==
    {<<>>}
    \cup {<<a>> : a \in ChannelPoints}
    \cup {o \in {<<a, b>> : a \in ChannelPoints, b \in ChannelPoints} : o[1] # o[2]}
    \cup {<<"c1", "c2", "c3">>, <<"c3", "c1", "c2">>}

\* what get_peer_channels returns for the peer: [] when lncli fails
Listings ==
    {[i \in 1 .. Len(o) |-> ListedChannel(o[i], v)] :
        o \in PointOrders, v \in ChannelValues}

ListedPoints(current) == {current[i].channel_point : i \in 1 .. Len(current)}

\* merge_channels without the tombstones: a channel that is gone is dropped
merge_channels_dropping_closed(existing, current) ==
    LET by_chan_point == [cp \in ListedPoints(current) |->
                             CHOOSE c \in {current[i] : i \in 1 .. Len(current)} :
                                 c.channel_point = cp]
        present(old) == old.channel_point \in ListedPoints(current)
        kept == SelectSeq(existing, present)
        seen == {existing[i].channel_point : i \in 1 .. Len(existing)}
                    \cap ListedPoints(current)
        brand_new(c) == c.channel_point \notin seen
        added == SelectSeq(current, brand_new)
    IN  [i \in 1 .. Len(kept) |->
            [channel_point |-> kept[i].channel_point,
             capacity |-> by_chan_point[kept[i].channel_point].capacity,
             local_balance |-> by_chan_point[kept[i].channel_point].local_balance,
             remote_balance |-> by_chan_point[kept[i].channel_point].remote_balance,
             active |-> TRUE]]
        \o [i \in 1 .. Len(added) |->
               [channel_point |-> added[i].channel_point,
                capacity |-> added[i].capacity,
                local_balance |-> added[i].local_balance,
                remote_balance |-> added[i].remote_balance,
                active |-> TRUE]]

merge_channels(existing, current) ==
    LET by_chan_point == [cp \in ListedPoints(current) |->
                             CHOOSE c \in {current[i] : i \in 1 .. Len(current)} :
                                 c.channel_point = cp]
        seen == {existing[i].channel_point : i \in 1 .. Len(existing)}
                    \cap ListedPoints(current)
        brand_new(c) == c.channel_point \notin seen
        added == SelectSeq(current, brand_new)
    IN  [i \in 1 .. Len(existing) |->
            LET old == existing[i]
                cp == old.channel_point
            IN  IF cp \in ListedPoints(current)
                THEN [channel_point |-> cp,
                      capacity |-> by_chan_point[cp].capacity,
                      local_balance |-> by_chan_point[cp].local_balance,
                      remote_balance |-> by_chan_point[cp].remote_balance,
                      active |-> TRUE]
                ELSE [old EXCEPT !.local_balance = 0, !.remote_balance = 0,
                                 !.capacity = 0, !.active = FALSE]]
        \o [i \in 1 .. Len(added) |->
               [channel_point |-> added[i].channel_point,
                capacity |-> added[i].capacity,
                local_balance |-> added[i].local_balance,
                remote_balance |-> added[i].remote_balance,
                active |-> TRUE]]

SyncInit ==
    /\ chan_list = <<>>
    /\ chan_listing = <<>>
    /\ chan_ever = {}
    /\ syncs = 0

\* update_all_states_with_channel_info for the peer:
\* state["channels"] = merge_channels(state.get("channels", []), current)
SyncChannels ==
    /\ syncs < MaxSyncs
    /\ \E current \in Listings :
       \E merged \in {merge_channels(chan_list, current)} :
          /\ chan_list' = merged
          /\ chan_listing' = current
          /\ chan_ever' = chan_ever
                             \cup {chan_list[i].channel_point : i \in 1 .. Len(chan_list)}
                             \cup {merged[i].channel_point : i \in 1 .. Len(merged)}
    /\ syncs' = syncs + 1
    /\ UNCHANGED notSync

SyncNext == SyncChannels

(***************************************************************************)
(* The sink-risk score of one cycle: autotune/autotune.py,                 *)
(* compute_sink_risk_score, which recommend_and_update_fees calls on the   *)
(* section process_channel_data filled.  Scores are in tenths.             *)
(***************************************************************************)
PriorScores == {0, 3, 6, 10}

SinkSections ==
    [ema_blended : {20000, 60000}, ema_delta : {-1, 1},
     rev_ema_blended : {50, 600}, rev_delta : {-1, 1},
     zero_ema_count : {0, 1}, fee_bump_streak : {0, 5},
     sink_risk_score : PriorScores]

NoSinkScore == [done |-> FALSE]

SinkRiskInit ==
    /\ sr_section \in SinkSections
    /\ sr_score = NoSinkScore

SinkRiskIdle ==
    /\ sr_section = CHOOSE sec \in SinkSections : TRUE
    /\ sr_score = NoSinkScore

\* state["sink_risk_score"] = compute_sink_risk_score(state)
ScoreSinkRisk ==
    /\ ~sr_score.done
    /\ sr_score' = [done |-> TRUE, prior |-> sr_section.sink_risk_score,
                    score |-> compute_sink_risk_score(sr_section)]
    /\ sr_section' = [sr_section EXCEPT
                         !.sink_risk_score = compute_sink_risk_score(sr_section)]
    /\ UNCHANGED notSinkRisk

SinkRiskNext == ScoreSinkRisk

(***************************************************************************)
(* The specifications.  In each, one component runs and the others stand   *)
(* still in their initial states.                                          *)
(***************************************************************************)
Init == CorrInit /\ StoreInit /\ ClampIdle /\ RoleInit /\ DebounceInit /\ RulesIdle /\ CycleIdle /\ EmaIdle /\ BumpIdle /\ FullCycleIdle /\ ManagerIdle /\ SyncInit /\ SinkRiskIdle

Next ==
    \/ Tick
    \/ Produce
    \/ ReadIdle
    \/ ReadGarbage
    \/ ReadEvent

Spec == Init /\ [][Next]_vars

StoreSpecInit == StoreInit /\ CorrInit /\ ClampIdle /\ RoleInit /\ DebounceInit /\ RulesIdle /\ CycleIdle /\ EmaIdle /\ BumpIdle /\ FullCycleIdle /\ ManagerIdle /\ SyncInit /\ SinkRiskIdle

StoreSpec == StoreSpecInit /\ [][StoreNext]_vars

StoreAnySpecInit == StoreAnyInit /\ CorrInit /\ ClampIdle /\ RoleInit /\ DebounceInit /\ RulesIdle /\ CycleIdle /\ EmaIdle /\ BumpIdle /\ FullCycleIdle /\ ManagerIdle /\ SyncInit /\ SinkRiskIdle

StoreAnySpec == StoreAnySpecInit /\ [][StoreNext]_vars

ClampSpecInit == ClampInit /\ CorrInit /\ StoreInit /\ RoleInit /\ DebounceInit /\ RulesIdle /\ CycleIdle /\ EmaIdle /\ BumpIdle /\ FullCycleIdle /\ ManagerIdle /\ SyncInit /\ SinkRiskIdle

ClampSpec == ClampSpecInit /\ [][ClampNext]_vars

RoleNext ==
    \/ NextDay
    \/ CycleQuiet
    \/ CycleActive

RoleSpecInit == RoleInit /\ CorrInit /\ StoreInit /\ ClampIdle /\ DebounceInit /\ RulesIdle /\ CycleIdle /\ EmaIdle /\ BumpIdle /\ FullCycleIdle /\ ManagerIdle /\ SyncInit /\ SinkRiskIdle

RoleSpec == RoleSpecInit /\ [][RoleNext]_vars

DebounceNext ==
    \/ DebounceCycle

DebounceSpecInit == DebounceInit /\ CorrInit /\ StoreInit /\ ClampIdle /\ RoleInit /\ RulesIdle /\ CycleIdle /\ EmaIdle /\ BumpIdle /\ FullCycleIdle /\ ManagerIdle /\ SyncInit /\ SinkRiskIdle

DebounceSpec == DebounceSpecInit /\ [][DebounceNext]_vars

RulesSpecInit == RulesInit /\ CorrInit /\ StoreInit /\ ClampIdle /\ RoleInit /\ DebounceInit /\ CycleIdle /\ EmaIdle /\ BumpIdle /\ FullCycleIdle /\ ManagerIdle /\ SyncInit /\ SinkRiskIdle

\* evaluate_fee_rules on every context of Contexts
RulesSpec == RulesSpecInit /\ [][RulesNext]_vars

CycleSpecInit == CycleInit /\ CorrInit /\ StoreInit /\ ClampIdle /\ RoleInit /\ DebounceInit /\ RulesIdle /\ EmaIdle /\ BumpIdle /\ FullCycleIdle /\ ManagerIdle /\ SyncInit /\ SinkRiskIdle

\* the fee cycles of one peer
CycleSpec == CycleSpecInit /\ [][CycleNext]_vars

NegativeFeeSpecInit == NegativeFeeInit /\ CorrInit /\ StoreInit /\ ClampIdle /\ RoleInit /\ DebounceInit /\ RulesIdle /\ EmaIdle /\ BumpIdle /\ FullCycleIdle /\ ManagerIdle /\ SyncInit /\ SinkRiskIdle

\* cycles of a peer whose stored fee is negative
NegativeFeeSpec == NegativeFeeSpecInit /\ [][CycleNext]_vars

EscapeSpecInit == EscapeInit /\ CorrInit /\ StoreInit /\ ClampIdle /\ RoleInit /\ DebounceInit /\ RulesIdle /\ EmaIdle /\ BumpIdle /\ FullCycleIdle /\ ManagerIdle /\ SyncInit /\ SinkRiskIdle

\* cycles of a peer whose section holds a failure count
EscapeSpec == EscapeSpecInit /\ [][CycleNext]_vars

EmaSpecInit == EmaInit /\ CorrInit /\ StoreInit /\ ClampIdle /\ RoleInit /\ DebounceInit /\ RulesIdle /\ CycleIdle /\ BumpIdle /\ FullCycleIdle /\ ManagerIdle /\ SyncInit /\ SinkRiskIdle

\* one EMA update of a peer
EmaSpec == EmaSpecInit /\ [][EmaNext]_vars

BumpSpecInit == BumpInit /\ CorrInit /\ StoreInit /\ ClampIdle /\ RoleInit /\ DebounceInit /\ RulesIdle /\ CycleIdle /\ EmaIdle /\ FullCycleIdle /\ ManagerIdle /\ SyncInit /\ SinkRiskIdle

\* one fee bump
BumpSpec == BumpSpecInit /\ [][BumpNext]_vars

FullCycleSpecInit == FullCycleInit /\ CorrInit /\ StoreInit /\ ClampIdle /\ RoleInit /\ DebounceInit /\ RulesIdle /\ CycleIdle /\ EmaIdle /\ BumpIdle /\ ManagerIdle /\ SyncInit /\ SinkRiskIdle

\* one full cycle for a peer whose EMAs are all 0
FullCycleSpec == FullCycleSpecInit /\ [][FullCycleNext]_vars

ManagerSpecInit == ManagerInit /\ CorrInit /\ StoreInit /\ ClampIdle /\ RoleInit /\ DebounceInit /\ RulesIdle /\ CycleIdle /\ EmaIdle /\ BumpIdle /\ FullCycleIdle /\ SyncInit /\ SinkRiskIdle

\* cycles of the fee manager over two peers
ManagerSpec == ManagerSpecInit /\ [][ManagerNext]_vars

SyncSpecInit == SyncInit /\ CorrInit /\ StoreInit /\ ClampIdle /\ RoleInit /\ DebounceInit /\ RulesIdle /\ CycleIdle /\ EmaIdle /\ BumpIdle /\ FullCycleIdle /\ ManagerIdle /\ SinkRiskIdle

\* channel syncs of one peer
SyncSpec == SyncSpecInit /\ [][SyncNext]_vars

SinkRiskSpecInit == SinkRiskInit /\ CorrInit /\ StoreInit /\ ClampIdle /\ RoleInit /\ DebounceInit /\ RulesIdle /\ CycleIdle /\ EmaIdle /\ BumpIdle /\ FullCycleIdle /\ ManagerIdle /\ SyncInit

\* one call of compute_sink_risk_score
SinkRiskSpec == SinkRiskSpecInit /\ [][SinkRiskNext]_vars

(***************************************************************************)
(* Claims about the correlator.                                            *)
(***************************************************************************)
RecordsOf(a) == {i \in 1..Len(emitted) : emitted[i].fwd.id = a}
IsCorrelatedFail(rec) == rec.result.id # 0
IsSyntheticSuccess(rec) == rec.result = SuccessResult
IsStandalone(rec) == rec.result = EmptyResult

\* C1: no forward attempt (and no raw event at all) is the fwd side of two
\* emitted records, and an attempt that has a record is no longer in the
\* pending map, so it can produce no further record.
C1_NoAttemptYieldsTwoRecords ==
    /\ \A i, j \in 1..Len(emitted) :
          emitted[i].fwd.id = emitted[j].fwd.id => i = j
    /\ \A i \in 1..Len(emitted) : emitted[i].fwd.id \notin SeqIds(pending)

\* C1 witness: an attempt was matched with a terminal failure, and a second
\* failure with the same key arrived afterwards; it made a standalone record
\* of its own instead of a second record of the attempt.
C1_Witness ==
    \E i, j \in 1..Len(emitted) :
        /\ i < j
        /\ emitted[i].fwd.id \in attempts
        /\ IsCorrelatedFail(emitted[i])
        /\ IsStandalone(emitted[j])
        /\ emitted[j].fwd.k = emitted[i].fwd.k

\* C2: every attempt that was buffered as pending is either still pending or
\* has exactly one emitted record; none leaves the pending map without one.
C2_EveryAttemptResolvesOnce ==
    \A a \in attempts :
        IF a \in SeqIds(pending)
        THEN RecordsOf(a) = {}
        ELSE Cardinality(RecordsOf(a)) = 1

\* C3: the pending map never keeps an attempt older than the expiry window:
\* when a pass of the read loop has just run, at the present time, no
\* pending attempt is older than expiry_secs.
C3_NoPendingPastExpiry ==
    lastPass # "none"
        => \A i \in 1..Len(pending) : ~Expired(pending[i], now)

\* C4: every correlated fail record pairs a pending attempt with a terminal
\* failure of the same key, is the only record of that attempt, and is
\* classified local when the failure annotation is on the attempt side and
\* remote when it is on the outcome side.
C4_MatchedFailClassified ==
    \A i \in 1..Len(emitted) :
        IsCorrelatedFail(emitted[i]) =>
            /\ emitted[i].fwd.id \in attempts
            /\ IsFailure(emitted[i].result)
            /\ emitted[i].result.k = emitted[i].fwd.k
            /\ RecordsOf(emitted[i].fwd.id) = {i}
            /\ classify_failure_source(emitted[i]) =
                  (IF emitted[i].fwd.payload \in fail_keys THEN "local" ELSE "remote")

(***************************************************************************)
(* Claims about the state store.                                           *)
(***************************************************************************)
KeyTexts(d) == {k.s : k \in DOMAIN d}
HasIntKey(d) == \E k \in DOMAIN d : k.int

\* js is the dict py with every key written as a string and the values
\* related by Same
SameUpToKeyText(py, js, Same(_, _)) ==
    /\ KeyTexts(js) = KeyTexts(py)
    /\ ~HasIntKey(js)
    /\ \A k \in DOMAIN py : Same(py[k], js[StrKey(k.s)])

SameScalar(x, y) == x = y
SameSection(a, b) ==
    /\ a.fee = b.fee
    /\ SameUpToKeyText(a.htlc_stats, b.htlc_stats, SameScalar)
SameMemUpToKeyText(py, js) == SameUpToKeyText(py, js, SameSection)

MemHasIntKey(pm) == \E k \in DOMAIN pm : HasIntKey(pm[k].htlc_stats)

\* C5 as stated: a load after a completed save returns a mapping equal to
\* the state that was saved.
C5_SaveThenLoadEqual ==
    (pc = "saved" /\ hasLoaded) => loaded = saving

\* C5 amended: a load after a completed save returns the saved state with
\* every integer dict key replaced by its decimal string, whatever files
\* existed before; it equals the saved state when that has no integer key.
C5_SaveThenLoadJsonImage ==
    (pc = "saved" /\ hasLoaded) =>
        /\ SameMemUpToKeyText(saving, loaded)
        /\ ~MemHasIntKey(saving) => loaded = saving

\* C5 witness: a state with an integer key was saved over a corrupt
\* primary file and loaded back.
C5_Witness ==
    /\ pc = "saved"
    /\ hasLoaded
    /\ MemHasIntKey(saving)
    /\ files[1] = Partial

\* C6: load_peer_memory returns the contents of the first of primary,
\* backup 1, ..., backup N that holds a valid mapping, and {} when none does.
ValidCandidates == {i \in 0..BACKUP_COUNT : Loadable(files[i])}
FirstValid == CHOOSE i \in ValidCandidates : \A j \in ValidCandidates : i <= j

C6_LoadFirstValidCandidate ==
    hasLoaded =>
        /\ ValidCandidates = {} => loaded = EmptyMem
        /\ ValidCandidates # {} => loaded = files[FirstValid].val
        /\ (~Loadable(files[0]) /\ Loadable(files[1])) => loaded = files[1].val

\* C6 witness: the primary file is cut short, backup 1 is JSON but no
\* mapping, backup 2 is intact, and the load returned backup 2.
C6_Witness ==
    /\ hasLoaded
    /\ files[0] = Partial
    /\ files[1] = JsonList
    /\ Loadable(files[2])
    /\ files[2].val # EmptyMem
    /\ loaded = files[2].val

\* C7: whatever step a save has reached, and after a crash at any step, a
\* load returns the whole state of the last completed save or the whole
\* state being saved, never a partial one.
WholeStates == {JsonRoundTrip(committed), JsonRoundTrip(saving)}

C7_CrashSafe ==
    /\ load_peer_memory(files) \in WholeStates
    /\ (pc # "saved" => load_peer_memory(files) = JsonRoundTrip(committed))
    /\ (crashed /\ hasLoaded) => loaded \in WholeStates

\* C7 witness: a save of a different state crashed in the middle of a
\* backup copy, after an earlier save had completed, and a load ran.
C7_Witness ==
    /\ crashed
    /\ hasLoaded
    /\ committed # EmptyMem
    /\ JsonRoundTrip(saving) # JsonRoundTrip(committed)
    /\ \E i \in 1..BACKUP_COUNT : files[i] = Partial

(***************************************************************************)
(* Claims about the policy clamp.                                          *)
(***************************************************************************)
\* the inbound bounds the policy configures: the peer's own when it has
\* them, else the global ones
ConfiguredInboundMin ==
    Get(policy.min_inbound_fee_ppm, Get(policy.inbound_min_ppm, DefaultInboundMinPpm))
ConfiguredInboundMax ==
    Get(policy.max_inbound_fee_ppm, Get(policy.inbound_max_ppm, DefaultInboundMaxPpm))

\* C8: what enforce_policy returns has 0 <= min_fee_ppm <= max_fee_ppm, an
\* inbound fee within the configured inbound bounds, and a negative
\* inbound fee no larger in size than max_fee_ppm.
C8_ClampPostconditions ==
    runs >= 1 =>
        /\ 0 <= new_fees.min_fee_ppm
        /\ new_fees.min_fee_ppm <= new_fees.max_fee_ppm
        /\ ConfiguredInboundMin <= new_fees.inbound_fee_ppm
        /\ new_fees.inbound_fee_ppm <= ConfiguredInboundMax
        /\ new_fees.inbound_fee_ppm < 0 => -new_fees.inbound_fee_ppm <= new_fees.max_fee_ppm

\* C9: enforce_policy applied to its own output returns it unchanged, fees
\* and state.
C9_ClampIdempotent ==
    runs = 2 => (new_fees = in_fees /\ pstate = in_pstate)

(***************************************************************************)
(* Claims about the role state.                                            *)
(***************************************************************************)
IsPrefix(s, t) == Len(s) <= Len(t) /\ SubSeq(t, 1, Len(s)) = s

\* the latest cycle classified the peer and the class is not the stored role
Flipped == new_role # "none" /\ new_role # prev_section.role

\* C10: a cycle whose classification differs from the stored role (the
\* first classification of an untracked peer included) appends exactly one
\* record {timestamp, role} to role_flips, leaves the earlier records as
\* they were, sets days_since_flip to 0 and role to the new class; and no
\* step ever shortens or rewrites role_flips.
C10_FlipAppendsOneRecord ==
    /\ IsPrefix(prev_section.role_flips, section.role_flips)
    /\ Flipped =>
           /\ section.role_flips =
                  Append(prev_section.role_flips, FlipRecord(today, new_role))
           /\ section.days_since_flip = 0
           /\ section.role = new_role
    /\ ~Flipped => section.role_flips = prev_section.role_flips

\* a tracked peer that had gone a day without a flip has just flipped
C10_Witness ==
    /\ Flipped
    /\ prev_section.days_since_flip > 0
    /\ Len(prev_section.role_flips) >= 1
    /\ section.role_flips # prev_section.role_flips

\* the latest step was a cycle that classified the peer as its stored role
SameRole == classified # "none" /\ classified = prev_section.role

\* the latest cycle was the first one to run on its calendar day
FirstCycleOfDay == prev_cycle_day # today

\* C11: a cycle whose classification equals the stored role leaves
\* role_flips as it was and adds exactly 1 to days_since_flip when it is the
\* first cycle to run on a new calendar day, and adds nothing when an
\* earlier cycle already ran that day.
C11_SameRoleCountsDays ==
    SameRole =>
        /\ section.role_flips = prev_section.role_flips
        /\ section.days_since_flip =
               IF FirstCycleOfDay THEN prev_section.days_since_flip + 1
               ELSE prev_section.days_since_flip

(***************************************************************************)
(* Claims about the debounced role override.                               *)
(***************************************************************************)
\* the latest DebounceCycles cycles all landed in band b
AllInBand(b) ==
    /\ Len(band_hist) = DebounceCycles
    /\ \A i \in 1..DebounceCycles : band_hist[i].band = b

\* ... and none before the latest had a blended EMA at or under the floor
AllInBandCounted(b) ==
    /\ AllInBand(b)
    /\ \A i \in 1..(DebounceCycles - 1) : ~band_hist[i].low_ema

Bands == {"high", "low", "neutral"}

\* C12 as stated: 3 consecutive cycles with a score >= 0.8 set the override
\* to "sink", 3 with a score <= 0.2 set it to "tap", 3 in the neutral band
\* clear it; fewer than 3 consecutive cycles in a band leave it as it was;
\* the rules are given the override when one is set.
C12_ThreeCyclesInBand ==
    /\ AllInBand("high") => overlay.role_override = "sink"
    /\ AllInBand("low") => overlay.role_override = "tap"
    /\ AllInBand("neutral") => overlay.role_override = ""
    /\ (\A b \in Bands : ~AllInBand(b)) => overlay.role_override = prev_override
    /\ dcycles > 0 =>
           ctx_role = IF overlay.role_override # "" THEN overlay.role_override
                      ELSE peer_role

\* C12 amended: the same, for 3 consecutive cycles of which the first two
\* had a blended EMA above the floor; a run that does not count that way
\* leaves the override as it was.
C12_ThreeCountedCyclesInBand ==
    /\ AllInBandCounted("high") => overlay.role_override = "sink"
    /\ AllInBandCounted("low") => overlay.role_override = "tap"
    /\ AllInBandCounted("neutral") => overlay.role_override = ""
    /\ (\A b \in Bands : ~AllInBandCounted(b)) => overlay.role_override = prev_override
    /\ dcycles > 0 =>
           ctx_role = IF overlay.role_override # "" THEN overlay.role_override
                      ELSE peer_role

\* an override that was set has just been cleared by a neutral run
C12_Witness ==
    /\ AllInBandCounted("neutral")
    /\ prev_override # ""
    /\ overlay.role_override = ""

(***************************************************************************)
(* Claims about the rule engine.                                           *)
(***************************************************************************)
\* the result of the i-th rule of the catalogue on the evaluated context
ResultAt(i) == RunRule(ALL_RULES[i], rule_ctx)

OutboundCandidateAt(i) ==
    ResultAt(i) # {} /\ \A r \in ResultAt(i) : IsOutboundCandidate(r, rule_ctx)

InboundCandidateAt(i) ==
    ResultAt(i) # {} /\ \A r \in ResultAt(i) : IsInboundCandidate(r, rule_ctx)

WeightAt(i) == (CHOOSE r \in ResultAt(i) : TRUE).weight

Catalogue == 1..Len(ALL_RULES)

\* the catalogue position of the rule that arbitration must pick among the
\* given candidate positions: greatest weight, then earliest registration
Winner(candidates) ==
    {i \in candidates :
        /\ \A j \in candidates : WeightAt(j) <= WeightAt(i)
        /\ \A j \in candidates : WeightAt(j) = WeightAt(i) => i <= j}

\* C13: evaluate_fee_rules returns as best outbound the outbound candidate of
\* the greatest weight and, among those of equal weight, the one registered
\* earliest in ALL_RULES, or None when no rule is an outbound candidate; the
\* best inbound result is picked the same way from the inbound candidates.
C13_Arbitration ==
    evaluated =>
        LET out == {i \in Catalogue : OutboundCandidateAt(i)}
            inb == {i \in Catalogue : InboundCandidateAt(i)}
        IN  /\ best_outbound = UNION {ResultAt(i) : i \in Winner(out)}
            /\ best_inbound = UNION {ResultAt(i) : i \in Winner(inb)}

\* a tie of weight decided the outbound and the inbound result in some
\* evaluations, and one rule won both in another
C13_OutboundTie ==
    /\ evaluated
    /\ \E i, j \in Catalogue :
          /\ i < j /\ OutboundCandidateAt(i) /\ OutboundCandidateAt(j)
          /\ WeightAt(i) = WeightAt(j)
          /\ ResultAt(i) # ResultAt(j)
          /\ best_outbound = ResultAt(i)

C13_InboundTie ==
    /\ evaluated
    /\ \E i, j \in Catalogue :
          /\ i < j /\ InboundCandidateAt(i) /\ InboundCandidateAt(j)
          /\ WeightAt(i) = WeightAt(j)
          /\ ResultAt(i) # ResultAt(j)
          /\ best_inbound = ResultAt(i)

C13_Witness ==
    /\ evaluated
    /\ best_outbound # {}
    /\ best_outbound = best_inbound

\* C14: evaluate_fee_rules returns no outbound result when the context has
\* skip_outbound_fee_adjust set, and no inbound result when it has
\* skip_inbound_fee_adjust set.
C14_SkipFlagsForceNull ==
    evaluated =>
        /\ rule_ctx.skip_outbound_fee_adjust => best_outbound = {}
        /\ rule_ctx.skip_inbound_fee_adjust => best_inbound = {}

OutboundWellFormed ==
    \A r \in best_outbound : 0 <= r.new_min /\ r.new_min <= r.new_max

InboundAboveSubsidyFloor ==
    \A r \in best_inbound : \A f \in r.inbound_fee : f >= -rule_ctx.min_fee

\* C15: the outbound result of evaluate_fee_rules has 0 <= new_min <= new_max
\* and the inbound result has inbound_fee >= -ctx.min_fee.
C15_NeverNegativeFees ==
    evaluated => OutboundWellFormed /\ InboundAboveSubsidyFloor

(***************************************************************************)
(* Claims about the fee cycle.  last describes the latest cycle: the       *)
(* section and the configured fees it started from (last.section,          *)
(* last.lines), what adjust_channel_fees decided (last.adjusted) and the   *)
(* recommendation after the clamp (last.rec).                              *)
(***************************************************************************)
\* the latest cycle ran while the peer's cooldown was active, outside observe
\* mode
InCooldown == last.ran /\ ~observe /\ last.adjusted.cooldown

\* the rule that evaluate_fee_rules ranks first for the cycle's context
\* carries the cooldown-override flag
OverrideWins == \E r \in last.adjusted.best_outbound : r.cooldown_override

\* the fees adjust_channel_fees settled on differ from the configured ones
OutboundChanged ==
    \/ last.adjusted.new_min # last.lines.min_fee_ppm
    \/ last.adjusted.new_max # last.lines.max_fee_ppm

\* C16: while the peer's cooldown is active and the winning outbound rule does
\* not carry the cooldown-override flag, the cycle recommends the configured
\* min and max fees, leaves the stored fee unchanged and does not reset
\* cooldown_until.
C16_CooldownSuppressesChange ==
    (InCooldown /\ ~OverrideWins) =>
        /\ last.rec.min_fee_ppm = last.lines.min_fee_ppm
        /\ last.rec.max_fee_ppm = last.lines.max_fee_ppm
        /\ peer.fee = last.section.fee
        /\ peer.cooldown_until = last.section.cooldown_until

\* C17: when the peer's cooldown is active and the highest-weight firing
\* outbound rule carries the cooldown-override flag, the cycle applies that
\* rule's proposed fees.
C17_OverrideBypassesCooldown ==
    (InCooldown /\ OverrideWins) =>
        \A r \in last.adjusted.best_outbound :
            /\ last.adjusted.new_fees.min_fee_ppm = r.new_min
            /\ last.adjusted.new_fees.max_fee_ppm = r.new_max

StreakIncreased == last.ran /\ peer.fee_bump_streak > last.section.fee_bump_streak

StreakIncreasesOnlyOnProposedRaise ==
    StreakIncreased =>
        /\ peer.fee_bump_streak = last.section.fee_bump_streak + 1
        /\ last.adjusted.outbound_updated
        /\ last.adjusted.new_max > last.lines.max_fee_ppm
        /\ ~last.adjusted.cooldown
        /\ ~last.inp.skip_outbound_fee_adjust

\* a bump was attempted less than failed_bump_flag_hours before the cycle and
\* the cycle applied no new bump
BumpWindowOpen ==
    /\ last.section.fee_bump_attempted_at # {}
    /\ \A bump_time \in last.section.fee_bump_attempted_at :
           last.at - bump_time < 60 * CyclePolicy.failed_bump_flag_hours
    /\ ~last.adjusted.fee_bump_applied

NoChangeWhileNotSkipped ==
    ~last.adjusted.outbound_updated /\ ~last.inp.skip_outbound_fee_adjust

FailedOrSkippedBump ==
    BumpWindowOpen \/ NoChangeWhileNotSkipped \/ last.adjusted.fail_cooldown

\* the cycle ran the fee adjustment: not in observe mode, not in cooldown and
\* with outbound adjustment not skipped
TracksStreak ==
    ~observe /\ ~last.adjusted.cooldown /\ ~last.inp.skip_outbound_fee_adjust

AdvancedBy(period) == peer.cooldown_until = {last.at + period}

AboveFloor == last.adjusted.new_max > CyclePolicy.increment_ppm

AppliedIffChanged ==
    last.ran => (last.adjusted.outbound_updated <=> OutboundChanged)

\* C21: across the cycles of a peer, whose clock never goes back,
\* cooldown_until never moves to an earlier time than its previous value.
C21_CooldownNeverMovesBack ==
    [][/\ peer.cooldown_until # {} => peer'.cooldown_until # {}
       /\ \A before \in peer.cooldown_until : \A after \in peer'.cooldown_until :
              after >= before]_vars

\* C22 as stated: after every cycle zero_ema_count is the prior count plus 1
\* if the blended EMA is below the floor and 0 otherwise.
C22_ZeroEmaCountBelowFloor ==
    last.ran =>
        peer.zero_ema_count =
            IF last.inp.ema_blended < EmaFloor
            THEN last.section.zero_ema_count + 1 ELSE 0

\* C22 amended: after every cycle zero_ema_count is the prior count plus 1 if
\* the blended EMA is at or below the floor and 0 otherwise; no other step of
\* the cycle changes it.
C22_ZeroEmaCount ==
    last.ran =>
        peer.zero_ema_count =
            IF last.inp.ema_blended <= EmaFloor
            THEN last.section.zero_ema_count + 1 ELSE 0

C22_Witness ==
    /\ last.ran
    /\ last.inp.ema_blended = EmaFloor
    /\ last.section.zero_ema_count >= 1
    /\ peer.zero_ema_count = last.section.zero_ema_count + 1

(***************************************************************************)
(* Claims about the EMAs.                                                  *)
(***************************************************************************)
\* the sample of the update was the section's blended EMA
SampleAtBlend ==
    ema_res.done /\ 3 * ema_vol = ema_res.blended_before_x3

BlendUnchanged ==
    ema_res.blended_after_x300 = 100 * ema_res.blended_before_x3

HorizonsEqual ==
    ema_sec.ema_1d = ema_sec.ema_5d /\ ema_sec.ema_5d = ema_sec.ema_7d

\* C23 as stated: an update whose sample equals the blended EMA, the mean of
\* the three horizon EMAs, leaves the blended EMA unchanged, for any horizon
\* EMAs and any alpha triple get_adaptive_alpha selects.
C23_SampleAtBlendKeepsBlend ==
    SampleAtBlend => BlendUnchanged

\* C23 amended: the same when the three horizon EMAs are equal.
C23_SampleAtEqualHorizonsKeepsBlend ==
    (SampleAtBlend /\ HorizonsEqual) => BlendUnchanged

C23_Witness ==
    /\ SampleAtBlend /\ HorizonsEqual
    /\ ema_sec.ema_1d > 0
    /\ ema_res.alphas[1] # ema_res.alphas[3]
    /\ BlendUnchanged

\* the blended EMA moves by a third of the sum of alpha_h * (x - ema_h)
BlendMovesByWeightedGaps ==
    ema_res.done =>
        ema_res.blended_after_x300 - 100 * ema_res.blended_before_x3 =
              ema_res.alphas[1] * (ema_vol - ema_sec.ema_1d)
            + ema_res.alphas[2] * (ema_vol - ema_sec.ema_5d)
            + ema_res.alphas[3] * (ema_vol - ema_sec.ema_7d)

(***************************************************************************)
(* Claims about the fee bump.                                              *)
(***************************************************************************)
BumpedFrom(fee, streak) ==
    bump_res.done /\ bump_fee = fee /\ bump_streak = streak

BumpIs(new_max, new_min, step) ==
    bump_res.new_max = new_max /\ bump_res.new_min = new_min /\ bump_res.bump = step

\* the two worked examples, under an increment of 25
BumpExamples ==
    /\ BumpedFrom(0, 0) => BumpIs(1, 0, 1)
    /\ (BumpedFrom(25, 0) /\ bump_fees.FEE_MAX_PPM >= 50) => BumpIs(50, 25, 25)

\* new_min == new_max // 2 and step >= 0
BumpShape ==
    bump_res.done =>
        /\ bump_res.new_min = bump_res.new_max \div 2
        /\ bump_res.bump >= 0

BumpUnderMax ==
    bump_res.done => bump_res.new_max <= bump_fees.FEE_MAX_PPM

\* C24: bump(0, 0) = (1, 0, 1), bump(25, 0) = (50, 25, 25) under an increment
\* of 25, and for every current fee and streak the result has
\* new_min = new_max // 2, a step of at least 0 and a new_max that is not
\* above the policy's max_ppm.
C24_BumpContract ==
    BumpExamples /\ BumpShape /\ BumpUnderMax

\* the same under a policy whose max_ppm is not below its increment_ppm
BumpContractWhenMaxCoversIncrement ==
    bump_fees.FEE_MAX_PPM >= bump_fees.FEE_INCREMENT_PPM => C24_BumpContract

(***************************************************************************)
(* Claims about one full cycle.                                            *)
(***************************************************************************)
\* the cycle ran for a peer at 1 ppm with no bump streak whose 24h outbound
\* volume jumped to 150,000 sats with revenue 500
VolumeJump ==
    /\ fc_res.ran
    /\ fc_state.fee_bump_streak = 0
    /\ fc_res.sample.vol = 150000
    /\ fc_res.sample.revenue = 500

BootstrapFired ==
    \E r \in fc_res.adjusted.best_outbound : r.rule_id = "A1_bootstrap_low_fee"

\* C25: for a peer with all EMAs 0 and fee 1 ppm whose 24h outbound volume
\* jumps to 150,000 sats with revenue 500 and last-cycle volume 0, one full
\* cycle fires the bootstrap rule and ends with max_fee 2, min_fee 1,
\* cooldown_until advanced and fee_bump_streak 1.
C25_BootstrapEndToEnd ==
    VolumeJump =>
        /\ BootstrapFired
        /\ fc_res.rec.max_fee_ppm = 2
        /\ fc_res.rec.min_fee_ppm = 1
        /\ fc_res.state.cooldown_until # {}
        /\ fc_res.state.fee_bump_streak = 1

(***************************************************************************)
(* Claims about the fee manager.                                           *)
(***************************************************************************)
\* C26: every cycle of update_all_fees that completes persists the peer
\* state exactly once, in apply, dry-run and observe mode alike, and writes
\* the fee configuration only when apply is set and neither dry-run nor
\* observe is.
C26_SaveEveryCycle ==
    mgr_last.ran /\ mgr_last.completed =>
        /\ mgr_last.saves = 1
        /\ disk_mem = mgr_last.peer_mem
        /\ mgr_last.config_writes =
               (IF /\ mgr_last.apply_changes
                   /\ ~mgr_last.dry_run
                   /\ ~mgr_last.ema_observe
                THEN 1 ELSE 0)

\* a cycle completed in dry-run mode and saved a changed peer memory
C26_Witness ==
    /\ mgr_last.ran /\ mgr_last.completed
    /\ mgr_last.dry_run
    /\ mgr_last.saves = 1
    /\ mgr_last.config_writes = 0
    /\ disk_mem # mgr_last.before

\* the forwarding history could not be fetched in the latest cycle
HistoryUnavailable ==
    mgr_last.ran /\ ~mgr_last.fetched

\* C27: if the forwarding history is entirely unavailable, the whole cycle
\* aborts: no peer's fee, EMA or streak state is changed, nothing is saved
\* and no recommendation is written.
C27_AbortWithoutHistory ==
    HistoryUnavailable =>
        /\ disk_mem = mgr_last.before
        /\ mgr_last.saves = 0
        /\ mgr_last.config_writes = 0
        /\ \A p \in PeerNames : mgr_last.recommendations[p] = {}

\* peer p raised in the latest cycle: the loop stopped at p
RaisedAt(p) ==
    /\ mgr_last.ran
    /\ ~mgr_last.completed
    /\ mgr_last.before[p].malformed
    /\ \E i \in 1 .. Len(ManagerPeers) :
          /\ ManagerPeers[i] = p
          /\ mgr_last.processed = {ManagerPeers[j] : j \in 1 .. i - 1}

\* C28: per-peer failures are isolated: if processing one peer raises during
\* a cycle, every other configured peer is still processed in that cycle and
\* its recommendation and updated state are produced and saved.
C28_PeerFailureIsolated ==
    \A p \in PeerNames :
        RaisedAt(p) =>
            \A q \in PeerNames \ {p} :
                /\ q \in mgr_last.processed
                /\ mgr_last.recommendations[q] # {}
                /\ disk_mem[q] = mgr_last.peer_mem[q]
                /\ mgr_last.saves = 1

\* the min or the max fee computed in the latest cycle was negative
NegativeComputed ==
    /\ last.ran
    /\ \/ last.adjusted.new_fees.min_fee_ppm < 0
       \/ last.adjusted.new_fees.max_fee_ppm < 0

\* C29: a computed negative fee never propagates: if the min or max fee
\* computed in a cycle is negative, the fees returned in the recommendation
\* and the fee stored in the peer state are not negative after the cycle.
C29_NegativeFeeNeverPropagates ==
    NegativeComputed =>
        /\ last.rec.min_fee_ppm >= 0
        /\ last.rec.max_fee_ppm >= 0
        /\ \A f \in peer.fee : f >= 0

(***************************************************************************)
(* Claims about the channel sync.                                          *)
(***************************************************************************)
Listed(cp) ==
    \E i \in 1 .. Len(chan_listing) : chan_listing[i].channel_point = cp

\* the channel is in the list with the values of the latest listing
ShowsLatest(c) ==
    /\ c.active
    /\ \E i \in 1 .. Len(chan_listing) :
          /\ chan_listing[i].channel_point = c.channel_point
          /\ chan_listing[i].capacity = c.capacity
          /\ chan_listing[i].local_balance = c.local_balance
          /\ chan_listing[i].remote_balance = c.remote_balance

Tombstoned(c) ==
    /\ ~c.active
    /\ c.capacity = 0
    /\ c.local_balance = 0
    /\ c.remote_balance = 0

\* C30: channels are tombstoned, never removed: after any sequence of
\* channel syncs every channel_point that was ever in the peer's channel
\* list is still in it; a channel absent from the current listing has its
\* capacity and balances zeroed and active = false, a channel present in the
\* listing has the latest values and active = true.
C30_ChannelsTombstoned ==
    syncs > 0 =>
        /\ \A cp \in chan_ever :
              \E i \in 1 .. Len(chan_list) : chan_list[i].channel_point = cp
        /\ \A i \in 1 .. Len(chan_list) :
              IF Listed(chan_list[i].channel_point)
              THEN ShowsLatest(chan_list[i])
              ELSE Tombstoned(chan_list[i])

\* after a later sync the list holds a tombstone next to a channel that the
\* listing still shows
C30_Witness ==
    /\ syncs > 1
    /\ \E i \in 1 .. Len(chan_list) :
          ~Listed(chan_list[i].channel_point) /\ Tombstoned(chan_list[i])
    /\ \E i \in 1 .. Len(chan_list) :
          Listed(chan_list[i].channel_point) /\ ShowsLatest(chan_list[i])

\* the latest cycle found a failure count over the threshold
FailureCountExceeds ==
    /\ last.ran
    /\ last.section.htlc_fail_count > CyclePolicy.failed_htlc_threshold

\* the escape hatch acted: no rule was applied, the fees are the exponential
\* bump of the configured max fee, and the failure counter is cleared
EscapeHatchTaken ==
    /\ last.adjusted.rule_ids = {}
    /\ last.adjusted.new_fees.max_fee_ppm = last.adjusted.bump.new_max
    /\ last.adjusted.new_fees.min_fee_ppm = last.adjusted.bump.new_min
    /\ last.adjusted.new_fees.inbound_fee_ppm = last.section.inbound_fee
    /\ peer.htlc_fail_count = 0

InFailureBackoff ==
    /\ last.ran
    /\ last.section.fee_increase_failed_at # {}
    /\ \A failed_at \in last.section.fee_increase_failed_at :
          last.at - failed_at < 60 * CyclePolicy.fee_backoff_hours

\* the winning outbound rule overrides: the sink guard, or a rule that
\* carries the cooldown-override flag
BackoffOverridden ==
    \E r \in last.adjusted.best_outbound :
        r.cooldown_override \/ r.rule_id = "F3_ema_sink_guard"

\* the fee of the section, or the configured max fee where it has none
StoredFee(sec, lines) == Get(sec.fee, lines.max_fee_ppm)

C33_RoleFlipFreeze ==
    evaluated /\ rule_ctx.days_since_flip < 1 =>
        \A r \in best_outbound :
            r.new_min = rule_ctx.min_fee /\ r.new_max = rule_ctx.max_fee

\* neither the blended EMA nor the revenue EMA moved by 1% of its prior value
NoEmaMoved ==
    /\ 100 * Abs(rule_ctx.ema_blended - rule_ctx.prev_ema_blended)
           < Max2(Abs(rule_ctx.prev_ema_blended), 1)
    /\ 100 * Abs(rule_ctx.rev_ema_blended - rule_ctx.prev_rev_ema_blended)
           < Max2(Abs(rule_ctx.prev_rev_ema_blended), 1)

\* C34: no growth rule and no inbound-fee rule produces an outcome in a cycle
\* where neither the blended EMA nor the revenue EMA moved by at least 1%
\* relative to its prior value.
C34_NoOpGuard ==
    evaluated /\ NoEmaMoved =>
        /\ rule_a1_bootstrap_low_fee(rule_ctx) = {}
        /\ rule_a2_incremental_plus_one(rule_ctx) = {}
        /\ rule_c1_exponential_bump(rule_ctx) = {}
        /\ rule_f5_sink_inbound_tax(rule_ctx) = {}
        /\ rule_f6_inbound_fee_decay(rule_ctx) = {}
        /\ rule_f7_subsidise_inbound(rule_ctx) = {}
        /\ rule_h2_dynamic_inbound_fee(rule_ctx) = {}

(***************************************************************************)
(* Claims about the sink-risk score.                                       *)
(***************************************************************************)
SignalFired == sink_risk_signals(sr_section) > 0

\* C35: if any risk or recovery signal fired the new score is the prior
\* score plus the increment, rounded and clamped to [0, 1]; only if no
\* signal fired does the score decay to max(0, prior - fixed step); the
\* resulting score is always within [0, 1] (scores in tenths).
C35_SinkRiskUpdateRule ==
    sr_score.done =>
        /\ SignalFired =>
              sr_score.score =
                  Min2(10, Max2(0, sr_score.prior + sink_risk_signals(sr_section)))
        /\ ~SignalFired => sr_score.score = Max2(0, sr_score.prior - 1)
        /\ sr_score.score \in 0 .. 10

\* the part of C35 that holds: the score stays within [0, 1], and a cycle
\* without any signal decays it by the fixed step
SinkRiskInRangeAndDecays ==
    sr_score.done =>
        /\ sr_score.score \in 0 .. 10
        /\ ~SignalFired => sr_score.score = Max2(0, sr_score.prior - 1)

(***************************************************************************)
(* Claims about terminal failures without a pending attempt.               *)
(***************************************************************************)
\* the pass that is taken reads a terminal failure that carries one of the
\* annotations and whose key has no pending attempt
ReadsUnmatchedFailure(annotations) ==
    /\ feed # <<>>
    /\ feed' = Tail(feed)
    /\ parse_event(Head(feed), now) # NoEvent
    /\ ~IsAttempt(parse_event(Head(feed), now))
    /\ IsFailure(parse_event(Head(feed), now))
    /\ parse_event(Head(feed), now).payload \in annotations
    /\ ~HasKey(pending, key_from_event(parse_event(Head(feed), now)))

\* the pass appended exactly one record of the event it read, a standalone
\* one that is classified local
EmitsOneStandaloneLocal ==
    LET event == parse_event(Head(feed), now)
        mine == {i \in Len(emitted) + 1 .. Len(emitted') :
                    event.id \in {emitted'[i].fwd.id, emitted'[i].result.id}}
    IN  /\ Cardinality(mine) = 1
        /\ \A i \in mine :
              /\ emitted'[i].fwd = event
              /\ IsStandalone(emitted'[i])
              /\ classify_failure_source(emitted'[i]) = "local"

\* C36 as stated: a terminal failure event whose key has no pending attempt
\* makes the correlator emit exactly one standalone record, classified
\* local-fail.
C36_UnmatchedFailureStandalone ==
    [][ReadsUnmatchedFailure(fail_keys) => EmitsOneStandaloneLocal]_vars

\* C36 amended: a terminal failure event that carries a link-fail
\* annotation and whose key has no pending attempt makes the correlator
\* emit exactly one standalone record, classified local-fail.
C36_UnmatchedLinkFailStandalone ==
    [][ReadsUnmatchedFailure(fail_keys_not_paired) => EmitsOneStandaloneLocal]_vars

\* C36 witness: a link failure was read while an attempt with another key
\* was pending, and its standalone record is in the buffer.
C36_Witness ==
    \E i \in 1..Len(emitted) :
        /\ IsStandalone(emitted[i])
        /\ emitted[i].fwd.payload = "link_fail_event"
        /\ classify_failure_source(emitted[i]) = "local"
        /\ pending # <<>>
        /\ ~HasKey(pending, emitted[i].fwd.k)

(***************************************************************************)
(* Claims about the cadence of the batch cycle.                            *)
(***************************************************************************)
BatchOverdue == now - last_batch > interval_secs

\* C37: the batch cycle runs once the interval has elapsed since the last
\* one, whether or not new raw events arrive: when a pass of the read loop
\* has just run, at the present time, after a first batch cycle, no batch
\* cycle is overdue.
C37_BatchCycleDecoupled ==
    (lastPass # "none" /\ ~first_run) => ~BatchOverdue

(***************************************************************************)
(* Claims about the order of the writes of a cycle.                        *)
(***************************************************************************)
CallsOf(name) == {i \in 1 .. Len(mgr_last.calls) : mgr_last.calls[i] = name}

\* C38: in a cycle that applies changes the state store save completes
\* before the recommendation map is handed to the config writer: every
\* call of the config writer comes after a save of the same cycle.
C38_SaveBeforeConfigWriter ==
    mgr_last.ran =>
        \A w \in CallsOf("write_charge_lnd_toml") :
            \E sv \in CallsOf("save_peer_memory") : sv < w

(***************************************************************************)
(* Claims about the backup rotation.                                       *)
(***************************************************************************)
\* the number of saves that ran to their end since the last cut-short one
\* (at most BACKUP_COUNT + 1 of them are remembered)
SavesDone == Len(save_hist)

\* what the save j saves before the latest one wrote, if there was one
WrittenAgo(j) ==
    IF j < SavesDone THEN {save_hist[SavesDone - j]} ELSE {}

\* after a successful save generation 1 holds what the primary file held
\* before the save and generation i + 1 what generation i held before; the
\* rotation never touches a generation beyond BACKUP_COUNT
ShiftedByOne ==
    /\ pc = "saved" =>
          /\ files[0] = JsonDump(saving)
          /\ \A i \in 1 .. BACKUP_COUNT : files[i] = files_before[i - 1]
    /\ rot \in 0 .. BACKUP_COUNT

StatsWindows == 1 .. MAX_WINDOW_SECS

\* the counts of every window add up
CountsAddUp ==
    \A win \in StatsWindows :
        LET s == compute_peer_htlc_stats(htlc_events, now, win)
        IN  /\ s.total = s.fails + s.successes
            /\ s.fails = s.local_fails + s.remote_fails

\* C40: every record the correlator writes for a terminal failure, matched
\* with a pending attempt or standalone, is counted as a failure, local or
\* remote, by compute_peer_htlc_stats, only synthetic success records are
\* counted as successes, and in every window total = fails + successes and
\* fails = local_fails + remote_fails.
C40_FailuresCountedAsFailures ==
    /\ \A i \in 1..Len(emitted) :
          /\ (IsCorrelatedFail(emitted[i]) \/ IsStandalone(emitted[i]))
                => htlc_outcome(emitted[i]) \in {"local_fail", "remote_fail"}
          /\ htlc_outcome(emitted[i]) = "success" => IsSyntheticSuccess(emitted[i])
    /\ CountsAddUp

====
